---------------------------- MODULE Spec2Model ----------------------------
(***************************************************************************)
(* Model of the media-group fragment store of grammy-media-groups.         *)
(*                                                                         *)
(* storeMessages (src/src/storage.ts) is an async function: it runs        *)
(* synchronously up to each `await`, so every action below is one such     *)
(* synchronous segment, or one backend operation taking effect.            *)
(*                                                                         *)
(* The backend is any StorageAdapter<Message[]>.  An adapter either hands  *)
(* out the stored array itself on read (an in-memory map does) or a copy   *)
(* (a serialising store does); `aliasing` fixes which, and arrays are      *)
(* objects of a heap so that both behave as in JavaScript.                 *)
(***************************************************************************)
EXTENDS Integers, Sequences, FiniteSets, TLC

VARIABLES
    aliasing,   \* TRUE: adapter.read returns the stored array by reference
    heap,       \* array objects: reference -> sequence of messages
    store,      \* the backend: key -> reference of the stored array, or Null
    calls,      \* the storeMessages calls, by call id
    deletes,    \* how many delete calls were made
    lastWrite,  \* history: key -> {the call whose write took effect last},
                \* empty when nothing was written since the last delete
    log,        \* history: the getMediaGroup and deleteMediaGroup calls made
    mw,         \* the mediaGroups plugin: its option and its middleware runs
    tr,         \* the runs of the transformer
    fn          \* the application of a function: its input, then its output

vars == <<aliasing, heap, store, calls, deletes, lastWrite, log, mw, tr, fn>>

----------------------------------------------------------------------------
(* Bounds *)

\* Calls 1 .. NumCalls follow call 0, the call that fills the backend.
NumCalls == 2
\* Longest batch of a call.
MaxBatchLen == 2
\* Longest batch of call 1 of a sequential run.
MaxLongLen == 3
\* Longest batch of call 0 of a concurrent run.
MaxSeedLen == 3
\* Delete calls of a concurrent run.
MaxDeletes == 1
\* getMediaGroup and deleteMediaGroup calls of a run of the three operations.
MaxLog == 2
\* Longest array in the result of an API call.
MaxResultLen == 2
\* Longest array of messages given to toInputMedia.
MaxMediaLen == 3

CallIds == 0 .. NumCalls
Later == 1 .. NumCalls

----------------------------------------------------------------------------
(* Messages *)

\* `media_group_id` of a message that has none (undefined).
NoGroup == "undefined"
GroupIds == {"g1", "g2"}
\* Keys a backend can be asked for; NoGroup is what a missing id would
\* turn into as a property name.
AllKeys == GroupIds \cup {NoGroup}

msg(messageId, chatId, mediaGroupId, text) ==
    [message_id |-> messageId, chat |-> [id |-> chatId],
     media_group_id |-> mediaGroupId, text |-> text]

\* The messages of the sequential runs: under g1 three identities (two that
\* share the message_id, two that share the chat) and an edited copy of the
\* first; under g2 one message; one message without a group.
Messages ==
    { msg(1, 100, "g1", "old"), msg(1, 100, "g1", "new"),
      msg(2, 100, "g1", "old"), msg(1, 200, "g1", "old"),
      msg(1, 100, "g2", "old"), msg(1, 100, NoGroup, "old") }

\* The messages of the concurrent runs: two identities under g1, one
\* message under g2.
ConcMessages ==
    { msg(1, 100, "g1", "old"), msg(2, 100, "g1", "old"), msg(1, 100, "g2", "old") }

RECURSIVE SeqsUpTo(_, _)
SeqsUpTo(S, n) ==
    IF n = 0 THEN {<<>>}
    ELSE LET shorter == SeqsUpTo(S, n - 1)
         IN  shorter \cup { Append(s, x) : s \in {t \in shorter : Len(t) = n - 1}, x \in S }

Batches == SeqsUpTo(Messages, MaxBatchLen)
LongBatches == SeqsUpTo(Messages, MaxLongLen)
SeedBatches == SeqsUpTo(ConcMessages, MaxSeedLen)
ConcBatches == SeqsUpTo(ConcMessages, MaxBatchLen)

\* Errors a backend operation can reject with.
Errors == {"E1", "E2"}

----------------------------------------------------------------------------
(* The heap of array objects *)

\* An array is named after the call that created it and the key it was
\* created for: a call creates at most one array per key.
Null == <<>>
Refs == CallIds \X AllKeys

\* The loop without `if (!media_group_id) continue`.
FalsyNever(id) == FALSE

\* `!media_group_id`
Falsy(id) == id \in {NoGroup, ""}

RefsOfCall(c) == { c.groups[j].ref : j \in 1 .. Len(c.groups) }

Live(st, cs) ==
    { st[k] : k \in AllKeys } \cup UNION { RefsOfCall(cs[p]) : p \in CallIds }

\* Arrays nothing refers to any more are dropped.
Collect(h, st, cs) ==
    [r \in Refs |-> IF r \in Live(st, cs) THEN h[r] ELSE <<>>]

Absent == <<"absent">>
Present(group) == <<"present", group>>

----------------------------------------------------------------------------
(* storeMessages *)

\* findIndex whose predicate compares message_id alone.
findIndexById(group, message) ==
    LET hits == { j \in 1 .. Len(group) : group[j].message_id = message.message_id }
    IN  IF hits = {} THEN -1
        ELSE CHOOSE j \in hits : \A l \in hits : j <= l

\* group.findIndex(m => m.message_id === message.message_id &&
\*                      m.chat.id === message.chat.id): the first match, or -1
\* (positions are counted from 1 here).
findIndex(group, message) ==
    LET hits == { j \in 1 .. Len(group) :
                    /\ group[j].message_id = message.message_id
                    /\ group[j].chat.id = message.chat.id }
    IN  IF hits = {} THEN -1
        ELSE CHOOSE j \in hits : \A l \in hits : j <= l

\* Upsert that removes the matching entry and pushes the message.
UpsertMovesToEnd(group, message) ==
    Append(SelectSeq(group, LAMBDA m : ~(/\ m.message_id = message.message_id
                                         /\ m.chat.id = message.chat.id)),
           message)

\* Upsert that pushes the message whether or not an entry matches.
UpsertAppends(group, message) == Append(group, message)

\* Upsert with `index > 0` for `index >= 0`: a match in the first slot of the
\* array counts as no match.
UpsertSkipsFirst(group, message) ==
    LET index == findIndex(group, message)
    IN  IF index > 1 THEN [group EXCEPT ![index] = message]
        ELSE Append(group, message)

\* Upsert that puts a message with no matching entry first.
UpsertUnshifts(group, message) ==
    LET index == findIndex(group, message)
    IN  IF index >= 1 THEN [group EXCEPT ![index] = message]
        ELSE <<message>> \o group

\* group[index >= 0 ? index : group.length] = message
Upsert(group, message) ==
    LET index == findIndex(group, message)
    IN  IF index >= 1 THEN [group EXCEPT ![index] = message]
        ELSE Append(group, message)

\* The upserts of the messages of `messages`, in order, into one array.
RECURSIVE UpsertAll(_, _)
UpsertAll(group, messages) ==
    IF messages = <<>> THEN group
    ELSE UpsertAll(Upsert(group, Head(messages)), Tail(messages))

\* groups as a cache of the group read last: an earlier key is not found.
GroupPosLast(groups, key) ==
    IF groups # <<>> /\ groups[Len(groups)].key = key THEN Len(groups) ELSE 0

\* groups as one accumulator: whatever was read first is used for every key.
GroupPosFirst(groups, key) == IF groups # <<>> THEN 1 ELSE 0

\* groups[media_group_id]: the position of the key among the call's groups, 0
\* when the property is not set.
GroupPos(groups, key) ==
    LET hits == { j \in 1 .. Len(groups) : groups[j].key = key }
    IN  IF hits = {} THEN 0 ELSE CHOOSE j \in hits : TRUE

IdleCall ==
    [pc |-> "idle", batch |-> <<>>, i |-> 1, groups |-> <<>>, reads |-> <<>>,
     writes |-> <<>>, pend |-> {}, failed |-> {}, result |-> "none", error |-> "none",
     raised |-> <<>>, before |-> <<>>]

\* The loop `for (const message of messages)` from message c.i on, up to the
\* next `await adapter.read(...)` or the end of the batch.  Yields the call
\* and the heap; pc is "read" (suspended in the read of batch[i]'s key) or
\* "loopend".
RECURSIVE Loop(_, _)
Loop(c, h) ==
    IF c.i > Len(c.batch) THEN [call |-> [c EXCEPT !.pc = "loopend"], heap |-> h]
    ELSE LET message == c.batch[c.i]
             media_group_id == message.media_group_id
             pos == GroupPos(c.groups, media_group_id)
         IN  IF Falsy(media_group_id)
               THEN Loop([c EXCEPT !.i = @ + 1], h)
             ELSE IF pos = 0
               THEN [call |-> [c EXCEPT !.pc = "read",
                                        !.reads = Append(@, media_group_id)],
                     heap |-> h]
             ELSE LET ref == c.groups[pos].ref
                  IN  Loop([c EXCEPT !.i = @ + 1],
                           [h EXCEPT ![ref] = Upsert(@, message)])

\* Keys of the groups record, in Object.entries order.
GroupKeys(c) == [j \in 1 .. Len(c.groups) |-> c.groups[j].key]

SeqToSet(s) == { s[j] : j \in 1 .. Len(s) }

\* Promise.all(Object.entries(groups).map(([key, value]) =>
\*     adapter.write(key, value))): every write is invoked, in order, before
\* any is awaited.  With no group, the promise resolves at once.
InvokeWrites(c) ==
    IF Len(c.groups) = 0
    THEN [c EXCEPT !.pc = "done", !.result = "resolved"]
    ELSE [c EXCEPT !.pc = "write", !.writes = GroupKeys(c),
                   !.pend = SeqToSet(GroupKeys(c))]

\* adapter.write throws inside map at the n-th entry: the entries before it
\* were invoked, those after it never are, and the call rejects.
ThrowInWrites(c, n, e) ==
    [c EXCEPT !.pc = IF n = 1 THEN "done" ELSE "write",
              !.writes = SubSeq(GroupKeys(c), 1, n),
              !.pend = SeqToSet(SubSeq(GroupKeys(c), 1, n - 1)),
              !.failed = {GroupKeys(c)[n]},
              !.result = "rejected", !.error = e, !.raised = <<e>>]

\* What can follow a synchronous segment that started in call c, with a
\* backend whose write can throw the errors errs.
AfterLoop(c, h, errs) ==
    LET r == Loop(c, h)
    IN  IF r.call.pc = "read" THEN {r}
        ELSE {[call |-> InvokeWrites(r.call), heap |-> r.heap]}
             \cup { [call |-> ThrowInWrites(r.call, n, e), heap |-> r.heap] :
                      n \in 1 .. Len(r.call.groups), e \in errs }

Install(p, r) ==
    /\ calls' = [calls EXCEPT ![p] = r.call]
    /\ heap' = Collect(r.heap, store, calls')

\* storeMessages(adapter, batch) is called: it runs to its first await.
\* `seen` is what the caller saw in the backend just before (history).
Call(p, batch, errs, seen) ==
    /\ calls[p].pc = "idle"
    /\ \E r \in AfterLoop([IdleCall EXCEPT !.pc = "run", !.batch = batch,
                                           !.before = seen], heap, errs) :
         Install(p, r)
    /\ UNCHANGED <<aliasing, store, lastWrite>>

\* ReadValue when every backend hands out the stored array itself.
ReadValueShared(p, key) ==
    IF store[key] = Null THEN [ref |-> <<p, key>>, val |-> <<>>, own |-> TRUE]
    ELSE [ref |-> store[key], val |-> heap[store[key]], own |-> FALSE]

\* ReadValue of an engine that copies the array the read returned.
ReadValueCopied(p, key) ==
    [ref |-> <<p, key>>,
     val |-> IF store[key] = Null THEN <<>> ELSE heap[store[key]],
     own |-> TRUE]

\* The value of `(await adapter.read(key)) ?? []` in call p.
ReadValue(p, key) ==
    IF store[key] = Null THEN [ref |-> <<p, key>>, val |-> <<>>, own |-> TRUE]
    ELSE IF aliasing THEN [ref |-> store[key], val |-> heap[store[key]], own |-> FALSE]
    ELSE [ref |-> <<p, key>>, val |-> heap[store[key]], own |-> TRUE]

\* adapter.read(key) answers: the value the await will yield is fixed.
ReadOk(p) ==
    LET c == calls[p]
        key == c.batch[c.i].media_group_id
        got == ReadValue(p, key)
    IN  /\ c.pc = "read"
        /\ calls' = [calls EXCEPT ![p].pc = "resume",
                        ![p].groups = Append(@, [key |-> key, ref |-> got.ref,
                                                 snap |-> got.val, own |-> got.own])]
        /\ heap' = Collect([heap EXCEPT ![got.ref] = got.val], store, calls')
        /\ UNCHANGED <<aliasing, store, lastWrite>>

\* The await returns and storeMessages goes on from
\* `groups[media_group_id] ??= ...` to its next await.
Resume(p, errs) ==
    /\ calls[p].pc = "resume"
    /\ \E r \in AfterLoop([calls[p] EXCEPT !.pc = "run"], heap, errs) : Install(p, r)
    /\ UNCHANGED <<aliasing, store, lastWrite>>

\* ReadFail of an engine that writes the groups it has when a read rejects.
ReadFailFlushes(p, e) ==
    /\ calls[p].pc = "read"
    /\ calls' = [calls EXCEPT ![p].pc = IF calls[p].groups = <<>> THEN "done" ELSE "write",
                              ![p].writes = GroupKeys(calls[p]),
                              ![p].pend = SeqToSet(GroupKeys(calls[p])),
                              ![p].result = "rejected",
                              ![p].error = e, ![p].raised = <<e>>]
    /\ heap' = Collect(heap, store, calls')
    /\ UNCHANGED <<aliasing, store, lastWrite>>

\* adapter.read(key) rejects: the await throws and storeMessages rejects.
ReadFail(p, e) ==
    /\ calls[p].pc = "read"
    /\ calls' = [calls EXCEPT ![p].pc = "done", ![p].result = "rejected",
                              ![p].error = e, ![p].raised = <<e>>]
    /\ heap' = Collect(heap, store, calls')
    /\ UNCHANGED <<aliasing, store, lastWrite>>

Settle(c) == IF c.pend = {} THEN [c EXCEPT !.pc = "done"] ELSE c

\* WriteOk on a backend that keeps one group: the write drops the others.
WriteOkEvicting(p, key) ==
    LET c == calls[p]
        c1 == [c EXCEPT !.pend = @ \ {key}]
        c2 == IF c1.pend = {} /\ c1.result = "none"
              THEN [c1 EXCEPT !.result = "resolved"] ELSE c1
        ref == c.groups[GroupPos(c.groups, key)].ref
    IN  /\ c.pc = "write"
        /\ key \in c.pend
        /\ store' = [k \in AllKeys |-> IF k = key THEN ref ELSE Null]
        /\ calls' = [calls EXCEPT ![p] = Settle(c2)]
        /\ heap' = Collect(heap, store', calls')
        /\ lastWrite' = [lastWrite EXCEPT ![key] = {p}]
        /\ UNCHANGED aliasing

\* WriteOk of an engine that reads the key again when it writes and merges
\* its fragments into what is stored by then.
WriteOkMerging(p, key) ==
    LET c == calls[p]
        c1 == [c EXCEPT !.pend = @ \ {key}]
        c2 == IF c1.pend = {} /\ c1.result = "none"
              THEN [c1 EXCEPT !.result = "resolved"] ELSE c1
        ref == c.groups[GroupPos(c.groups, key)].ref
        mine == SelectSeq(c.batch, LAMBDA m : m.media_group_id = key)
        stored == IF store[key] = Null THEN <<>> ELSE heap[store[key]]
    IN  /\ c.pc = "write"
        /\ key \in c.pend
        /\ store' = [store EXCEPT ![key] = ref]
        /\ calls' = [calls EXCEPT ![p] = Settle(c2)]
        /\ heap' = Collect([heap EXCEPT ![ref] = UpsertAll(stored, mine)], store', calls')
        /\ lastWrite' = [lastWrite EXCEPT ![key] = {p}]
        /\ UNCHANGED aliasing

\* WriteOk of an engine whose `groups` is shared by the calls: a write also
\* stores the arrays the other calls hold.
WriteOkSharedGroups(p, key) ==
    LET c == calls[p]
        c1 == [c EXCEPT !.pend = @ \ {key}]
        c2 == IF c1.pend = {} /\ c1.result = "none"
              THEN [c1 EXCEPT !.result = "resolved"] ELSE c1
        held(k) == { q \in CallIds \ {p} : GroupPos(calls[q].groups, k) >= 1 }
        other(k) == CHOOSE q \in held(k) : TRUE
    IN  /\ c.pc = "write"
        /\ key \in c.pend
        /\ store' = [k \in AllKeys |->
                       IF k = key THEN c.groups[GroupPos(c.groups, key)].ref
                       ELSE IF held(k) # {}
                            THEN calls[other(k)].groups[GroupPos(calls[other(k)].groups, k)].ref
                            ELSE store[k]]
        /\ calls' = [calls EXCEPT ![p] = Settle(c2)]
        /\ heap' = Collect(heap, store', calls')
        /\ lastWrite' = [lastWrite EXCEPT ![key] = {p}]
        /\ UNCHANGED aliasing

\* WriteOk of an engine that drops the write of a group it had read when
\* the key is gone by the time of the write.
WriteOkUnlessDeleted(p, key) ==
    LET c == calls[p]
        c1 == [c EXCEPT !.pend = @ \ {key}]
        c2 == IF c1.pend = {} /\ c1.result = "none"
              THEN [c1 EXCEPT !.result = "resolved"] ELSE c1
        g == c.groups[GroupPos(c.groups, key)]
        gone == store[key] = Null /\ g.snap # <<>>
    IN  /\ c.pc = "write"
        /\ key \in c.pend
        /\ store' = IF gone THEN store ELSE [store EXCEPT ![key] = g.ref]
        /\ calls' = [calls EXCEPT ![p] = Settle(c2)]
        /\ heap' = Collect(heap, store', calls')
        /\ lastWrite' = IF gone THEN lastWrite ELSE [lastWrite EXCEPT ![key] = {p}]
        /\ UNCHANGED aliasing

\* adapter.write(key, value) takes effect.
WriteOk(p, key) ==
    LET c == calls[p]
        c1 == [c EXCEPT !.pend = @ \ {key}]
        c2 == IF c1.pend = {} /\ c1.result = "none"
              THEN [c1 EXCEPT !.result = "resolved"] ELSE c1
    IN  /\ c.pc = "write"
        /\ key \in c.pend
        /\ store' = [store EXCEPT ![key] = c.groups[GroupPos(c.groups, key)].ref]
        /\ calls' = [calls EXCEPT ![p] = Settle(c2)]
        /\ heap' = Collect(heap, store', calls')
        /\ lastWrite' = [lastWrite EXCEPT ![key] = {p}]
        /\ UNCHANGED aliasing

\* WriteFail of an engine that catches the rejection of a write.
WriteFailCaught(p, key, e) ==
    LET c == calls[p]
        c1 == [c EXCEPT !.pend = @ \ {key}, !.failed = @ \cup {key},
                        !.raised = Append(@, e)]
        c2 == IF c1.pend = {} /\ c1.result = "none"
              THEN [c1 EXCEPT !.result = "resolved"] ELSE c1
    IN  /\ c.pc = "write"
        /\ key \in c.pend
        /\ calls' = [calls EXCEPT ![p] = Settle(c2)]
        /\ heap' = Collect(heap, store, calls')
        /\ UNCHANGED <<aliasing, store, lastWrite>>

\* adapter.write(key, value) rejects: Promise.all rejects with the first
\* rejection; the other writes stay in flight.
WriteFail(p, key, e) ==
    LET c == calls[p]
        c1 == [c EXCEPT !.pend = @ \ {key}, !.failed = @ \cup {key},
                        !.raised = Append(@, e)]
        c2 == IF c1.result = "none"
              THEN [c1 EXCEPT !.result = "rejected", !.error = e] ELSE c1
    IN  /\ c.pc = "write"
        /\ key \in c.pend
        /\ calls' = [calls EXCEPT ![p] = Settle(c2)]
        /\ heap' = Collect(heap, store, calls')
        /\ UNCHANGED <<aliasing, store, lastWrite>>

\* The caller has seen the promise settle and keeps nothing of the call.
Return(p) ==
    /\ calls[p].pc = "done"
    /\ calls' = [calls EXCEPT ![p] = [IdleCall EXCEPT !.pc = "gone"]]
    /\ heap' = Collect(heap, store, calls')
    /\ UNCHANGED <<aliasing, store, lastWrite>>

\* Delete that empties the stored array and keeps the key.
DeleteEmpties(key) ==
    /\ heap' = IF store[key] = Null THEN heap ELSE [heap EXCEPT ![store[key]] = <<>>]
    /\ lastWrite' = [lastWrite EXCEPT ![key] = {}]
    /\ UNCHANGED <<aliasing, store, calls>>

\* Delete that clears the backend.
DeleteAll(key) ==
    /\ store' = [k \in AllKeys |-> Null]
    /\ heap' = Collect(heap, store', calls)
    /\ lastWrite' = [k \in AllKeys |-> {}]
    /\ UNCHANGED <<aliasing, calls>>

\* adapter.delete(key) takes effect.
Delete(key) ==
    /\ store' = [store EXCEPT ![key] = Null]
    /\ heap' = Collect(heap, store', calls)
    /\ lastWrite' = [lastWrite EXCEPT ![key] = {}]
    /\ UNCHANGED <<aliasing, calls>>

----------------------------------------------------------------------------
(* What a caller can observe *)

\* adapter.read(key) as a value: the stored sequence, or Absent.
Content(key) == IF store[key] = Null THEN Absent ELSE Present(heap[store[key]])
Contents == [k \in AllKeys |-> Content(k)]

\* storeMessage(adapter, message), the store of one message, run alone on a
\* backend holding `contents`: the backend after it.  The array read is
\* changed in place or copied, and written back under the key either way.
storeMessage(contents, message) ==
    LET mediaGroupId == message.media_group_id
        existing == IF contents[mediaGroupId] = Absent THEN <<>>
                    ELSE contents[mediaGroupId][2]
        index == findIndex(existing, message)
        written == IF index >= 1 THEN [existing EXCEPT ![index] = message]
                   ELSE existing \o <<message>>
    IN  IF Falsy(mediaGroupId) THEN contents
        ELSE [contents EXCEPT ![mediaGroupId] = Present(written)]

\* storeMessage for each message of the batch, one after the other.
RECURSIVE storeEach(_, _)
storeEach(contents, batch) ==
    IF batch = <<>> THEN contents
    ELSE storeEach(storeMessage(contents, Head(batch)), Tail(batch))

\* getMediaGroup with `?? []`: an empty sequence for an absent key.
getMediaGroupOrEmpty(mediaGroupId) ==
    IF store[mediaGroupId] = Null THEN Present(<<>>) ELSE Content(mediaGroupId)

\* getMediaGroup(mediaGroupId): `return await adapter.read(mediaGroupId)`.
getMediaGroup(mediaGroupId) == Content(mediaGroupId)

\* mediaGroups(...) was not called yet.
NoPlugin == [installed |-> FALSE]

\* The transformer was not run yet.
NoRuns == <<>>

\* No function is being applied.
NoApplication == [op |-> "none"]

----------------------------------------------------------------------------
(* The middleware of mediaGroups *)

\* `ctx.msg`, `reply_to_message` or `pinned_message` when there is none: all
\* the middleware does with it is `?.media_group_id`, which is undefined.
NoMessage == msg(0, 0, NoGroup, "missing")

\* An update: ctx.msg with its reply_to_message and its pinned_message.
update(message, reply, pinned) ==
    [msg |-> message, reply_to_message |-> reply, pinned_message |-> pinned]

Updates ==
    { update(msg(1, 100, "g1", "old"), NoMessage, NoMessage),
      update(msg(2, 100, "g1", "old"), NoMessage, NoMessage),
      update(msg(2, 100, "g1", "old"), msg(1, 100, "g1", "new"), msg(1, 100, "g2", "old")),
      update(msg(1, 100, NoGroup, "old"), msg(1, 100, "g1", "old"), NoMessage),
      update(msg(1, 100, "g2", "old"), msg(1, 100, NoGroup, "old"), msg(2, 100, "g1", "old")),
      update(NoMessage, NoMessage, NoMessage) }

\* The messages a handler passes to ctx.mediaGroups.store.
HandlerMessages ==
    { msg(1, 100, "g1", "new"), msg(1, 100, "g2", "old"), msg(1, 100, NoGroup, "old") }

Getters == {"getForMsg", "getForReply", "getForPinned"}

IdleRun ==
    [pc |-> "idle", update |-> update(NoMessage, NoMessage, NoMessage),
     hydrated |-> FALSE, atStart |-> <<>>, atNext |-> <<>>, seen |-> <<>>,
     stored |-> <<>>, error |-> "none"]

\* mediaGroups(adapter, options) with `const { autoStore = true } = options`.
Plugin(autoStore) ==
    [installed |-> TRUE, autoStore |-> autoStore, overlap |-> FALSE,
     runs |-> [i \in Later |-> IdleRun]]

\* toStore with the reply pushed before the message.
toStoreReplyFirst(u) ==
    (IF Falsy(u.reply_to_message.media_group_id) THEN <<>> ELSE <<u.reply_to_message>>)
    \o (IF Falsy(u.msg.media_group_id) THEN <<>> ELSE <<u.msg>>)
    \o (IF Falsy(u.pinned_message.media_group_id) THEN <<>> ELSE <<u.pinned_message>>)

\* toStore: msg, replyMsg and pinnedMsg, each pushed if it has a
\* media_group_id, in this order.
toStore(u) ==
    (IF Falsy(u.msg.media_group_id) THEN <<>> ELSE <<u.msg>>)
    \o (IF Falsy(u.reply_to_message.media_group_id) THEN <<>> ELSE <<u.reply_to_message>>)
    \o (IF Falsy(u.pinned_message.media_group_id) THEN <<>> ELSE <<u.pinned_message>>)

\* ShouldStore with `if (!autoStore)`.
ShouldStoreInverted(autoStore, batch) == ~autoStore /\ Len(batch) > 0

\* ShouldStore without `if (autoStore)`.
ShouldStoreAlways(autoStore, batch) == Len(batch) > 0

\* `if (autoStore) { ... if (toStore.length > 0) await storeMessages(...) }`
ShouldStore(autoStore, batch) == autoStore /\ Len(batch) > 0

\* Nested with getForReply and getForPinned wired to each other's message.
NestedSwapped(u, getter) ==
    IF getter = "getForMsg" THEN u.msg
    ELSE IF getter = "getForReply" THEN u.pinned_message
    ELSE u.reply_to_message

\* The message a getter of ctx.mediaGroups looks at.
Nested(u, getter) ==
    IF getter = "getForMsg" THEN u.msg
    ELSE IF getter = "getForReply" THEN u.reply_to_message
    ELSE u.pinned_message

\* getGroupFor(nested): `id ? getMediaGroup(id) : Promise.resolve(undefined)`.
\* `read` tells whether the backend was read.
getGroupFor(nested) ==
    LET id == nested.media_group_id
    IN  IF Falsy(id) THEN [read |-> FALSE, val |-> Absent]
        ELSE [read |-> TRUE, val |-> getMediaGroup(id)]

\* A run overlaps another when it starts before the other is over.
Busy(i) == mw.runs[i].pc \notin {"idle", "done"}

\* The middleware is run for update u: ctx.mediaGroups is set, and with
\* autoStore the messages of the update are stored before next(); if there
\* is nothing to store, next() is called at once.  The backend can reject
\* with the errors errs.
MwStart(i, u, errs) ==
    LET batch == toStore(u)
        run == [IdleRun EXCEPT !.update = u, !.hydrated = TRUE, !.atStart = Contents]
        over == mw.overlap \/ \E j \in Later \ {i} : Busy(j)
    IN  IF ShouldStore(mw.autoStore, batch)
        THEN /\ Call(i, batch, errs, Contents)
             /\ mw' = [mw EXCEPT !.runs[i] = [run EXCEPT !.pc = "storing"],
                                 !.overlap = over]
        ELSE /\ mw' = [mw EXCEPT !.runs[i] = [run EXCEPT !.pc = "next",
                                                         !.atNext = Contents],
                                 !.overlap = over]
             /\ UNCHANGED <<aliasing, heap, store, calls, lastWrite>>

\* `await storeMessages(adapter, toStore)` returns and next() is called.
MwNext(i) ==
    /\ mw.runs[i].pc = "storing"
    /\ calls[i].pc = "done" /\ calls[i].result = "resolved"
    /\ mw' = [mw EXCEPT !.runs[i].pc = "next", !.runs[i].atNext = Contents]
    /\ UNCHANGED <<aliasing, heap, store, calls, lastWrite>>

\* MwReject of a middleware that catches the rejection and calls next().
MwRejectCaught(i) ==
    /\ mw.runs[i].pc = "storing"
    /\ calls[i].result = "rejected"
    /\ mw' = [mw EXCEPT !.runs[i].pc = "next", !.runs[i].atNext = Contents]
    /\ UNCHANGED <<aliasing, heap, store, calls, lastWrite>>

\* `await storeMessages(adapter, toStore)` throws, as soon as the call has
\* rejected: the middleware rejects with the error of the call, and
\* `return next()` is not reached.
MwReject(i) ==
    /\ mw.runs[i].pc = "storing"
    /\ calls[i].result = "rejected"
    /\ mw' = [mw EXCEPT !.runs[i].pc = "rejected", !.runs[i].error = calls[i].error]
    /\ UNCHANGED <<aliasing, heap, store, calls, lastWrite>>

\* The handler calls one getter of ctx.mediaGroups and returns.
HandlerGet(i, getter) ==
    LET got == getGroupFor(Nested(mw.runs[i].update, getter))
    IN  /\ mw.runs[i].pc = "next"
        /\ mw' = [mw EXCEPT !.runs[i].pc = "done",
                            !.runs[i].seen = <<[getter |-> getter, read |-> got.read,
                                                val |-> got.val]>>]
        /\ UNCHANGED <<aliasing, heap, store, calls, lastWrite>>

\* store_ that leaves the storing to the middleware when autoStore is on.
storeUnlessAuto(p, message) ==
    Call(p, IF mw.autoStore THEN <<>> ELSE <<message>>, {}, Contents)

\* `store = (message) => storeMessages(adapter, [message])`, as call p.
store_(p, message) == Call(p, <<message>>, {}, Contents)

\* The handler calls ctx.mediaGroups.store(message); the call is call 0.
HandlerStore(i, message) ==
    /\ mw.runs[i].pc = "next"
    /\ calls[0].pc = "idle"
    /\ store_(0, message)
    /\ mw' = [mw EXCEPT !.runs[i].pc = "store", !.runs[i].stored = <<message>>]

\* store(message) has resolved and the handler returns.
HandlerStored(i) ==
    /\ mw.runs[i].pc = "store"
    /\ calls[0].pc = "done" /\ calls[0].result = "resolved"
    /\ mw' = [mw EXCEPT !.runs[i].pc = "done"]
    /\ UNCHANGED <<aliasing, heap, store, calls, lastWrite>>

----------------------------------------------------------------------------
(* mediaGroupTransformer *)

\* The names with an own property in MEDIA_GROUP_METHODS.
Registered ==
    {"sendMediaGroup", "forwardMessage", "editMessageMedia", "editMessageCaption",
     "editMessageReplyMarkup"}

\* The call names: the registered ones, a Bot API method that is not
\* registered, and a name that every JavaScript object inherits a property
\* for.
Methods == Registered \cup {"sendMessage", "constructor"}

\* The values of res.result: no value, `true`, a message, an array of
\* messages.
Undefined == [kind |-> "undefined", items |-> <<>>]
TrueResult == [kind |-> "true", items |-> <<>>]
MessageOf(m) == [kind |-> "message", items |-> <<m>>]
ArrayOf(messages) == [kind |-> "array", items |-> messages]

TrMessages ==
    {msg(1, 100, "g1", "old"), msg(2, 100, "g2", "old"), msg(3, 100, NoGroup, "old")}

Results ==
    {TrueResult} \cup { MessageOf(m) : m \in TrMessages }
    \cup { ArrayOf(b) : b \in SeqsUpTo(TrMessages, MaxResultLen) }

\* Values that are neither a message nor an array of messages.
NullResult == [kind |-> "null", items |-> <<>>]
FalseResult == [kind |-> "false", items |-> <<>>]
StringResult == [kind |-> "string", items |-> <<>>]

\* The values an extractor can be given.
RawValues == Results \cup {Undefined, NullResult, FalseResult, StringResult}

\* What prev resolves with: { ok: true, result } or an error response,
\* which has no result.
Responses ==
    { [ok |-> TRUE, result |-> r] : r \in Results }
    \cup {[ok |-> FALSE, result |-> Undefined]}

\* What an extractor returns: an array of values, or a value that
\* `for ... of` cannot iterate.
Iterable(elems) == [iterable |-> TRUE, elems |-> elems]
NotIterable == [iterable |-> FALSE, elems |-> <<>>]
Elements(messages) == [j \in 1 .. Len(messages) |-> MessageOf(messages[j])]

\* sendMediaGroup that keeps the elements with a media_group_id only.
sendMediaGroupFiltered(result) ==
    IF result.kind = "array"
    THEN Iterable(Elements(SelectSeq(result.items, LAMBDA m : ~Falsy(m.media_group_id))))
    ELSE Iterable(<<>>)

\* `(result) => (Array.isArray(result) ? result : [])`
sendMediaGroup(result) ==
    IF result.kind = "array" THEN Iterable(Elements(result.items)) ELSE Iterable(<<>>)

\* toArray that wraps objects only.
toArrayOfObject(result) ==
    IF result.kind \in {"message", "array"} THEN Iterable(<<result>>) ELSE Iterable(<<>>)

\* `(result) => [result]`
toArray(result) == Iterable(<<result>>)

\* toArrayIfObject with `result ? [result] : []`.
toArrayIfTruthy(result) ==
    IF result.kind \in {"message", "array", "true", "string"}
    THEN Iterable(<<result>>) ELSE Iterable(<<>>)

\* `result !== null && typeof result === "object" ? [result] : []`
toArrayIfObject(result) ==
    IF result.kind \in {"message", "array"} THEN Iterable(<<result>>) ELSE Iterable(<<>>)

\* The built-in `Object` called as a function: an object, so an array too,
\* is returned as it is; any other value becomes an object that is not
\* iterable.
ObjectFn(result) ==
    IF result.kind = "array" THEN Iterable(Elements(result.items)) ELSE NotIterable

\* `MEDIA_GROUP_METHODS[method]`: the property of an object literal, its
\* own or inherited from Object.prototype.
MEDIA_GROUP_METHODS(method) ==
    IF method \in Registered THEN method
    ELSE IF method = "constructor" THEN "Object"
    ELSE "undefined"

\* `extractor(res.result)`
Extract(extractor, result) ==
    CASE extractor = "sendMediaGroup" -> sendMediaGroup(result)
      [] extractor = "forwardMessage" -> toArray(result)
      [] extractor \in {"editMessageMedia", "editMessageCaption",
                        "editMessageReplyMarkup"} -> toArrayIfObject(result)
      [] extractor = "Object" -> ObjectFn(result)

\* `for (const message of messages)` throws a TypeError when messages is
\* not iterable, and `const { media_group_id } = message` when message is
\* undefined (the arrays here hold messages, so only as the first element).
Throws(x) == ~x.iterable \/ (x.elems # <<>> /\ x.elems[1] = Undefined)

\* What storeMessages reads of the elements: a value that is not a message
\* has no media_group_id.
AsBatch(elems) ==
    [j \in 1 .. Len(elems) |->
        IF elems[j].kind = "message" THEN elems[j].items[1] ELSE NoMessage]

\* The test without `res.ok`.
ClassifyAnyResponse(res, extractor) == extractor # "undefined"

\* `if (res.ok && extractor)`
Classify(res, extractor) == res.ok /\ extractor # "undefined"

IdleTr ==
    [pc |-> "idle", method |-> "none", res |-> [ok |-> FALSE, result |-> Undefined],
     extracted |-> FALSE, returned |-> <<>>, error |-> "none", overlap |-> FALSE,
     prev |-> 0]

\* The transformer is called for `method` and prev has resolved with res:
\* the result is extracted and storeMessages is called, or res is
\* returned at once.  errs is what the backend can reject with; overlap
\* (history) tells that another run was storing when this one began, and
\* prev counts the invocations of prev.
mediaGroupTransformer(i, method, res, errs) ==
    LET extractor == MEDIA_GROUP_METHODS(method)
        run == [IdleTr EXCEPT !.method = method, !.res = res, !.prev = 1,
                              !.overlap = \E j \in Later \ {i} : tr[j].pc = "storing"]
    IN  /\ tr[i].pc = "idle"
        /\ IF Classify(res, extractor)
           THEN LET x == Extract(extractor, res.result)
                IN  IF Throws(x)
                    THEN /\ tr' = [tr EXCEPT ![i] = [run EXCEPT !.pc = "done",
                                                                !.extracted = TRUE,
                                                                !.error = "TypeError"]]
                         /\ UNCHANGED <<aliasing, heap, store, calls, lastWrite>>
                    ELSE /\ Call(i, AsBatch(x.elems), errs, Contents)
                         /\ tr' = [tr EXCEPT ![i] = [run EXCEPT !.pc = "storing",
                                                                !.extracted = TRUE]]
           ELSE /\ tr' = [tr EXCEPT ![i] = [run EXCEPT !.pc = "done",
                                                       !.returned = <<res>>]]
                /\ UNCHANGED <<aliasing, heap, store, calls, lastWrite>>

\* TransformerReject of a transformer that catches the rejection and
\* returns res.
TransformerRejectCaught(i) ==
    /\ tr[i].pc = "storing"
    /\ calls[i].result = "rejected"
    /\ tr' = [tr EXCEPT ![i].pc = "done", ![i].returned = <<tr[i].res>>]
    /\ UNCHANGED <<aliasing, heap, store, calls, lastWrite>>

\* `await storeMessages(...)` throws, as soon as the call has rejected: the
\* transformer rejects with the error of the call and `return res` is not
\* reached.
TransformerReject(i) ==
    /\ tr[i].pc = "storing"
    /\ calls[i].result = "rejected"
    /\ tr' = [tr EXCEPT ![i].pc = "done", ![i].error = calls[i].error]
    /\ UNCHANGED <<aliasing, heap, store, calls, lastWrite>>

\* TransformerReturn without the await: res is returned while storeMessages
\* is running.
TransformerReturnEarly(i) ==
    /\ tr[i].pc = "storing"
    /\ tr' = [tr EXCEPT ![i].pc = "done", ![i].returned = <<tr[i].res>>]
    /\ UNCHANGED <<aliasing, heap, store, calls, lastWrite>>

\* `await storeMessages(...)` returns; `return res`.
TransformerReturn(i) ==
    /\ tr[i].pc = "storing"
    /\ calls[i].pc = "done" /\ calls[i].result = "resolved"
    /\ tr' = [tr EXCEPT ![i].pc = "done", ![i].returned = <<tr[i].res>>]
    /\ UNCHANGED <<aliasing, heap, store, calls, lastWrite>>

----------------------------------------------------------------------------
(* toInputMedia *)

\* `undefined` as the value of an option or of a field of a message.
Unset == "undefined"

\* A message with no media: each media field is <<>> when the message does
\* not have it and <<value>> when it has; the value of photo is the array
\* of its sizes, given by their file_id, and the value of the others is
\* the file_id.
TextMessage ==
    [photo |-> <<>>, video |-> <<>>, animation |-> <<>>, document |-> <<>>,
     audio |-> <<>>, caption |-> Unset, caption_entities |-> Unset]

\* The messages given to toInputMedia: two photos, a photo with an empty
\* array of sizes, a video, an animation (Telegram sets its document field
\* too), a document, an audio and a text message; and three messages with
\* several media fields: photo and video, video with animation and audio,
\* document and audio.
MediaMessages ==
    {[TextMessage EXCEPT !.photo = << <<"small", "large">> >>, !.caption = "own",
                         !.caption_entities = "ownEntities"],
     [TextMessage EXCEPT !.photo = << <<"ph2">> >>],
     [TextMessage EXCEPT !.photo = << <<>> >>],
     [TextMessage EXCEPT !.video = <<"vid1">>, !.caption = "own"],
     [TextMessage EXCEPT !.animation = <<"anim1">>, !.document = <<"anim1">>],
     [TextMessage EXCEPT !.document = <<"doc1">>, !.caption = "own",
                         !.caption_entities = "ownEntities"],
     [TextMessage EXCEPT !.audio = <<"aud1">>],
     [TextMessage EXCEPT !.photo = << <<"ph3">> >>, !.video = <<"vid3">>],
     [TextMessage EXCEPT !.video = <<"vid4">>, !.animation = <<"anim4">>,
                         !.audio = <<"aud4">>],
     [TextMessage EXCEPT !.document = <<"doc5">>, !.audio = <<"aud5">>,
                         !.caption = "own"],
     TextMessage}

MediaBatches == SeqsUpTo(MediaMessages, MaxMediaLen)

\* `true` as the value of an option.
True == "true"

\* ToInputMediaOptions; the empty caption is a caption.
Options ==
    [caption : {Unset, "", "override"},
     parse_mode : {Unset, "HTML"},
     caption_entities : {Unset, "entities"},
     show_caption_above_media : {Unset, True},
     has_spoiler : {Unset, True}]

\* InputMediaBuilder.photo/video/document/audio of grammY:
\* `{ type, media, ...options }`.
InputMediaBuilder(type, media, options) == [type |-> type, media |-> media] @@ options

\* What the callback of flatMap gives for one message: an array of no or
\* one InputMedia, or a TypeError.
Items(items) == [threw |-> FALSE, items |-> items]
TypeError == [threw |-> TRUE, items |-> <<>>]

\* overrideCaption for every message.
overrideCaptionEvery(options, i) == options.caption # Unset

\* `options.caption !== undefined && i === 0`
overrideCaption(options, i) == options.caption # Unset /\ i = 0

base(m, i, options) ==
    [caption |-> IF overrideCaption(options, i) THEN options.caption ELSE m.caption,
     parse_mode |-> IF overrideCaption(options, i) THEN options.parse_mode ELSE Unset,
     caption_entities |-> IF overrideCaption(options, i) THEN options.caption_entities
                          ELSE m.caption_entities]

\* visual without has_spoiler.
visualNoSpoiler(b, options) ==
    b @@ [show_caption_above_media |-> options.show_caption_above_media]

\* `{ ...base, show_caption_above_media, has_spoiler }`
visual(b, options) ==
    b @@ [show_caption_above_media |-> options.show_caption_above_media,
          has_spoiler |-> options.has_spoiler]

\* `InputMediaBuilder.photo(msg.photo.at(-1)!.file_id, visual)`: at(-1) of
\* an empty array is undefined and reading its file_id throws.
photoLast(photo, v) ==
    IF photo = <<>> THEN TypeError
    ELSE Items(<<InputMediaBuilder("photo", photo[Len(photo)], v)>>)

\* An animation kept as type "animation".
animationAsAnimation(animation, v) == Items(<<InputMediaBuilder("animation", animation, v)>>)

\* `InputMediaBuilder.video(msg.animation.file_id, visual)`
animationAsVideo(animation, v) == Items(<<InputMediaBuilder("video", animation, v)>>)

\* default that keeps a place for the message.
DefaultPlaceholder == Items(<<[type |-> "none", media |-> Unset]>>)

\* `default: return []`
Default == Items(<<>>)

\* Convert with the document tested before the animation and the audio
\* before the document.
ConvertDocumentFirst(m, i, options) ==
    LET b == base(m, i, options)
        v == visual(b, options)
    IN  CASE m.photo # <<>> -> photoLast(m.photo[1], v)
          [] m.photo = <<>> /\ m.video # <<>> ->
                Items(<<InputMediaBuilder("video", m.video[1], v)>>)
          [] m.photo = <<>> /\ m.video = <<>> /\ m.audio # <<>> ->
                Items(<<InputMediaBuilder("audio", m.audio[1], b)>>)
          [] m.photo = <<>> /\ m.video = <<>> /\ m.audio = <<>>
             /\ m.document # <<>> ->
                Items(<<InputMediaBuilder("document", m.document[1], b)>>)
          [] m.photo = <<>> /\ m.video = <<>> /\ m.audio = <<>>
             /\ m.document = <<>> /\ m.animation # <<>> ->
                animationAsVideo(m.animation[1], v)
          [] OTHER -> Default

\* The callback of flatMap, for the message at index i (from 0): the
\* `switch (true)` takes the first media field the message has.
Convert(m, i, options) ==
    LET b == base(m, i, options)
        v == visual(b, options)
    IN  CASE m.photo # <<>> -> photoLast(m.photo[1], v)
          [] m.photo = <<>> /\ m.video # <<>> ->
                Items(<<InputMediaBuilder("video", m.video[1], v)>>)
          [] m.photo = <<>> /\ m.video = <<>> /\ m.animation # <<>> ->
                animationAsVideo(m.animation[1], v)
          [] m.photo = <<>> /\ m.video = <<>> /\ m.animation = <<>>
             /\ m.document # <<>> ->
                Items(<<InputMediaBuilder("document", m.document[1], b)>>)
          [] m.photo = <<>> /\ m.video = <<>> /\ m.animation = <<>>
             /\ m.document = <<>> /\ m.audio # <<>> ->
                Items(<<InputMediaBuilder("audio", m.audio[1], b)>>)
          [] OTHER -> Default

RECURSIVE flatMap(_, _, _)
\* `messages.flatMap((msg, i) => ...)` from index i on: the arrays given by
\* the callback, concatenated; a TypeError of the callback ends it.
flatMap(messages, i, options) ==
    IF i >= Len(messages) THEN Items(<<>>)
    ELSE LET head == Convert(messages[i + 1], i, options)
         IN  IF head.threw THEN TypeError
             ELSE LET rest == flatMap(messages, i + 1, options)
                  IN  IF rest.threw THEN TypeError
                      ELSE Items(head.items \o rest.items)

\* toInputMedia that drops the messages without media before it maps, so
\* that index 0 is the first message that gives an item.
toInputMediaOfEmitted(messages, options) ==
    flatMap(SelectSeq(messages, LAMBDA m : Convert(m, 1, options) # Default), 0, options)

toInputMedia(messages, options) == flatMap(messages, 0, options)

----------------------------------------------------------------------------
(* Specifications *)

Init ==
    /\ aliasing \in BOOLEAN
    /\ heap = [r \in Refs |-> <<>>]
    /\ store = [k \in AllKeys |-> Null]
    /\ calls = [p \in CallIds |-> IdleCall]
    /\ deletes = 0
    /\ lastWrite = [k \in AllKeys |-> {}]
    /\ log = <<>>
    /\ mw = NoPlugin
    /\ tr = NoRuns
    /\ fn = NoApplication

\* Concurrent runs.  Call 0 runs alone and fills the backend; then the calls
\* 1 .. NumCalls and delete calls are made in any interleaving.  The backend
\* answers every operation.
FirstCall ==
    /\ calls[0].pc = "idle"
    /\ \E batch \in SeedBatches : Call(0, batch, {}, <<>>)
    /\ UNCHANGED <<deletes, log, mw, tr, fn>>

FirstReturn ==
    /\ Return(0)
    /\ UNCHANGED <<deletes, log, mw, tr, fn>>

\* Calls are numbered in the order they are made.
ConcCall(p) ==
    /\ calls[0].pc = "gone"
    /\ calls[p].pc = "idle"
    /\ \A q \in Later : q < p => calls[q].pc # "idle"
    /\ \E batch \in ConcBatches : Call(p, batch, {}, <<>>)
    /\ UNCHANGED <<deletes, log, mw, tr, fn>>

ConcReadOk(p) == ReadOk(p) /\ UNCHANGED <<deletes, log, mw, tr, fn>>

ConcResume(p) == Resume(p, {}) /\ UNCHANGED <<deletes, log, mw, tr, fn>>

ConcWriteOk(p, key) == WriteOk(p, key) /\ UNCHANGED <<deletes, log, mw, tr, fn>>

ConcDelete(key) ==
    /\ calls[0].pc = "gone"
    /\ deletes < MaxDeletes
    /\ Delete(key)
    /\ deletes' = deletes + 1
    /\ UNCHANGED <<log, mw, tr, fn>>

Next ==
    \/ FirstCall
    \/ FirstReturn
    \/ \E p \in Later : ConcCall(p)
    \/ \E p \in CallIds : ConcReadOk(p)
    \/ \E p \in CallIds : ConcResume(p)
    \/ \E p \in CallIds, key \in AllKeys : ConcWriteOk(p, key)
    \/ \E key \in GroupIds : ConcDelete(key)

Spec == Init /\ [][Next]_vars

\* Sequential runs.  Each call is made after the one before it has resolved.
\* Calls 0 and 1 take any batch, call 1 a longer one, and every later call
\* repeats the batch of the call before it.  The backend answers every
\* operation.
SeqReady(p) ==
    /\ calls[p].pc = "idle"
    /\ \A q \in CallIds : q < p => calls[q].pc = "done" /\ calls[q].result = "resolved"

SeqCall(p) ==
    /\ SeqReady(p)
    /\ \E batch \in (IF p = 0 THEN Batches
                     ELSE IF p = 1 THEN LongBatches
                     ELSE {calls[p - 1].batch}) :
         Call(p, batch, {}, Contents)
    /\ UNCHANGED <<deletes, log, mw, tr, fn>>

SeqReadOk(p) == ReadOk(p) /\ UNCHANGED <<deletes, log, mw, tr, fn>>

SeqResume(p) == Resume(p, {}) /\ UNCHANGED <<deletes, log, mw, tr, fn>>

SeqWriteOk(p, key) == WriteOk(p, key) /\ UNCHANGED <<deletes, log, mw, tr, fn>>

SeqNext ==
    \/ \E p \in CallIds : SeqCall(p)
    \/ \E p \in CallIds : SeqReadOk(p)
    \/ \E p \in CallIds : SeqResume(p)
    \/ \E p \in CallIds, key \in AllKeys : SeqWriteOk(p, key)

SeqSpec == Init /\ [][SeqNext]_vars

\* Sequential runs against a backend whose reads and writes can reject.
\* Nothing is called after a call that rejected.
FailCall(p) ==
    /\ SeqReady(p)
    /\ \E batch \in (IF p <= 1 THEN Batches ELSE {calls[p - 1].batch}) :
         Call(p, batch, Errors, Contents)
    /\ UNCHANGED <<deletes, log, mw, tr, fn>>

FailReadOk(p) == ReadOk(p) /\ UNCHANGED <<deletes, log, mw, tr, fn>>

FailResume(p) == Resume(p, Errors) /\ UNCHANGED <<deletes, log, mw, tr, fn>>

FailReadFail(p, e) == ReadFail(p, e) /\ UNCHANGED <<deletes, log, mw, tr, fn>>

FailWriteOk(p, key) == WriteOk(p, key) /\ UNCHANGED <<deletes, log, mw, tr, fn>>

FailWriteFail(p, key, e) == WriteFail(p, key, e) /\ UNCHANGED <<deletes, log, mw, tr, fn>>

FailNext ==
    \/ \E p \in CallIds : FailCall(p)
    \/ \E p \in CallIds : FailReadOk(p)
    \/ \E p \in CallIds : FailResume(p)
    \/ \E p \in CallIds, e \in Errors : FailReadFail(p, e)
    \/ \E p \in CallIds, key \in AllKeys : FailWriteOk(p, key)
    \/ \E p \in CallIds, key \in AllKeys, e \in Errors : FailWriteFail(p, key, e)

FailSpec == Init /\ [][FailNext]_vars

\* Runs of the store's three operations.  The calls 1 .. NumCalls of
\* storeMessages overlap, and getMediaGroup and deleteMediaGroup are called
\* at any moment, MaxLog times in all.  The backend answers every operation.
ApiCall(p) ==
    /\ calls[p].pc = "idle"
    /\ \A q \in Later : q < p => calls[q].pc # "idle"
    /\ \E batch \in ConcBatches : Call(p, batch, {}, <<>>)
    /\ UNCHANGED <<deletes, log, mw, tr, fn>>

ApiGet(key) ==
    /\ Len(log) < MaxLog
    /\ log' = Append(log, [op |-> "get", key |-> key, val |-> getMediaGroup(key)])
    /\ UNCHANGED <<aliasing, heap, store, calls, deletes, lastWrite, mw, tr, fn>>

ApiDelete(key) ==
    /\ Len(log) < MaxLog
    /\ Delete(key)
    /\ log' = Append(log, [op |-> "delete", key |-> key, val |-> Absent])
    /\ UNCHANGED <<deletes, mw, tr, fn>>

ApiNext ==
    \/ \E p \in Later : ApiCall(p)
    \/ \E p \in Later : ConcReadOk(p)
    \/ \E p \in Later : ConcResume(p)
    \/ \E p \in Later, key \in AllKeys : ConcWriteOk(p, key)
    \/ \E key \in GroupIds : ApiGet(key)
    \/ \E key \in GroupIds : ApiDelete(key)

ApiSpec == Init /\ [][ApiNext]_vars

\* Runs of the middleware.  mediaGroups is called with either value of
\* autoStore; then the middleware runs for NumCalls updates, in any
\* interleaving, and the handler of each run calls one getter or
\* ctx.mediaGroups.store, or nothing.  The backend answers every operation.
MwInstall(autoStore) ==
    /\ mw = NoPlugin
    /\ mw' = Plugin(autoStore)
    /\ UNCHANGED <<aliasing, heap, store, calls, deletes, lastWrite, log, tr, fn>>

MwRun(i) ==
    /\ mw.installed
    /\ mw.runs[i].pc = "idle"
    /\ \A j \in Later : j < i => mw.runs[j].pc # "idle"
    /\ \E u \in Updates : MwStart(i, u, {})
    /\ UNCHANGED <<deletes, log, tr, fn>>

MwReadOk(p) == ReadOk(p) /\ UNCHANGED <<deletes, log, mw, tr, fn>>

MwResume(p) == Resume(p, {}) /\ UNCHANGED <<deletes, log, mw, tr, fn>>

MwWriteOk(p, key) == WriteOk(p, key) /\ UNCHANGED <<deletes, log, mw, tr, fn>>

MwCallNext(i) ==
    /\ mw.installed
    /\ MwNext(i)
    /\ UNCHANGED <<deletes, log, tr, fn>>

MwHandlerGet(i, getter) ==
    /\ mw.installed
    /\ HandlerGet(i, getter)
    /\ UNCHANGED <<deletes, log, tr, fn>>

MwHandlerStore(i) ==
    /\ mw.installed
    /\ mw.runs[i].pc = "next"
    /\ \E message \in HandlerMessages : HandlerStore(i, message)
    /\ UNCHANGED <<deletes, log, tr, fn>>

MwHandlerStored(i) ==
    /\ mw.installed
    /\ HandlerStored(i)
    /\ UNCHANGED <<deletes, log, tr, fn>>

MwHandlerReturn(i) ==
    /\ mw.installed
    /\ mw.runs[i].pc = "next"
    /\ mw' = [mw EXCEPT !.runs[i].pc = "done"]
    /\ UNCHANGED <<aliasing, heap, store, calls, deletes, lastWrite, log, tr, fn>>

MwSpecNext ==
    \/ \E autoStore \in BOOLEAN : MwInstall(autoStore)
    \/ \E i \in Later : MwRun(i)
    \/ \E p \in CallIds : MwReadOk(p)
    \/ \E p \in CallIds : MwResume(p)
    \/ \E p \in CallIds, key \in AllKeys : MwWriteOk(p, key)
    \/ \E i \in Later : MwCallNext(i)
    \/ \E i \in Later, getter \in Getters : MwHandlerGet(i, getter)
    \/ \E i \in Later : MwHandlerStore(i)
    \/ \E i \in Later : MwHandlerStored(i)
    \/ \E i \in Later : MwHandlerReturn(i)

MwSpec == Init /\ [][MwSpecNext]_vars

----------------------------------------------------------------------------
(* The runs of the middleware over a backend that can reject *)

MwFailRun(i) ==
    /\ mw.installed
    /\ mw.runs[i].pc = "idle"
    /\ \A j \in Later : j < i => mw.runs[j].pc # "idle"
    /\ \E u \in Updates : MwStart(i, u, Errors)
    /\ UNCHANGED <<deletes, log, tr, fn>>

MwFailResume(p) == Resume(p, Errors) /\ UNCHANGED <<deletes, log, mw, tr, fn>>

MwReadFail(p, e) == ReadFail(p, e) /\ UNCHANGED <<deletes, log, mw, tr, fn>>

MwWriteFail(p, key, e) == WriteFail(p, key, e) /\ UNCHANGED <<deletes, log, mw, tr, fn>>

MwRejectRun(i) ==
    /\ mw.installed
    /\ MwReject(i)
    /\ UNCHANGED <<deletes, log, tr, fn>>

MwFailNext ==
    \/ \E autoStore \in BOOLEAN : MwInstall(autoStore)
    \/ \E i \in Later : MwFailRun(i)
    \/ \E p \in CallIds : MwReadOk(p)
    \/ \E p \in CallIds : MwFailResume(p)
    \/ \E p \in CallIds, e \in Errors : MwReadFail(p, e)
    \/ \E p \in CallIds, key \in AllKeys : MwWriteOk(p, key)
    \/ \E p \in CallIds, key \in AllKeys, e \in Errors : MwWriteFail(p, key, e)
    \/ \E i \in Later : MwCallNext(i)
    \/ \E i \in Later : MwRejectRun(i)
    \/ \E i \in Later : MwHandlerReturn(i)

MwFailSpec == Init /\ [][MwFailNext]_vars

\* The transformer.  It is installed on an empty backend and called once
\* per call id, for any call name and any response of prev; the calls can
\* overlap.  The backend answers every operation.
TrInstall ==
    /\ tr = NoRuns
    /\ tr' = [i \in Later |-> IdleTr]
    /\ UNCHANGED <<aliasing, heap, store, calls, deletes, lastWrite, log, mw, fn>>

TrCall(i) ==
    /\ tr # NoRuns
    /\ \A j \in Later : j < i => tr[j].pc # "idle"
    /\ \E method \in Methods, res \in Responses : mediaGroupTransformer(i, method, res, {})
    /\ UNCHANGED <<deletes, log, mw, fn>>

TrReadOk(p) == tr # NoRuns /\ ReadOk(p) /\ UNCHANGED <<deletes, log, mw, tr, fn>>

TrResume(p) == tr # NoRuns /\ Resume(p, {}) /\ UNCHANGED <<deletes, log, mw, tr, fn>>

TrWriteOk(p, key) == tr # NoRuns /\ WriteOk(p, key) /\ UNCHANGED <<deletes, log, mw, tr, fn>>

TrReturn(i) ==
    /\ tr # NoRuns
    /\ TransformerReturn(i)
    /\ UNCHANGED <<deletes, log, mw, fn>>

TrNext ==
    \/ TrInstall
    \/ \E i \in Later : TrCall(i)
    \/ \E p \in Later : TrReadOk(p)
    \/ \E p \in Later : TrResume(p)
    \/ \E p \in Later, key \in AllKeys : TrWriteOk(p, key)
    \/ \E i \in Later : TrReturn(i)

TrSpec == Init /\ [][TrNext]_vars

----------------------------------------------------------------------------
(* The runs of the transformer over a backend that can reject *)

\* The calls of these runs: a method that answers an array, one that
\* answers a message or `true`, and one that is not registered.
FailMethods == {"sendMediaGroup", "editMessageCaption", "sendMessage"}

FailResponses ==
    { [ok |-> TRUE, result |-> r] :
        r \in {TrueResult, MessageOf(msg(1, 100, "g1", "old")),
               ArrayOf(<<msg(1, 100, "g1", "old")>>),
               ArrayOf(<<msg(1, 100, "g1", "old"), msg(2, 100, "g2", "old")>>)} }
    \cup {[ok |-> FALSE, result |-> Undefined]}

TrFailCall(i) ==
    /\ tr # NoRuns
    /\ \A j \in Later : j < i => tr[j].pc # "idle"
    /\ \E method \in FailMethods, res \in FailResponses :
         mediaGroupTransformer(i, method, res, Errors)
    /\ UNCHANGED <<deletes, log, mw, fn>>

TrFailResume(p) == tr # NoRuns /\ Resume(p, Errors) /\ UNCHANGED <<deletes, log, mw, tr, fn>>

TrReadFail(p, e) == tr # NoRuns /\ ReadFail(p, e) /\ UNCHANGED <<deletes, log, mw, tr, fn>>

TrWriteFail(p, key, e) ==
    tr # NoRuns /\ WriteFail(p, key, e) /\ UNCHANGED <<deletes, log, mw, tr, fn>>

TrRejectRun(i) ==
    /\ tr # NoRuns
    /\ TransformerReject(i)
    /\ UNCHANGED <<deletes, log, mw, fn>>

TrFailNext ==
    \/ TrInstall
    \/ \E i \in Later : TrFailCall(i)
    \/ \E p \in Later : TrReadOk(p)
    \/ \E p \in Later : TrFailResume(p)
    \/ \E p \in Later, e \in Errors : TrReadFail(p, e)
    \/ \E p \in Later, key \in AllKeys : TrWriteOk(p, key)
    \/ \E p \in Later, key \in AllKeys, e \in Errors : TrWriteFail(p, key, e)
    \/ \E i \in Later : TrReturn(i)
    \/ \E i \in Later : TrRejectRun(i)

TrFailSpec == Init /\ [][TrFailNext]_vars

\* The extractors.  A registered call name and a value are chosen, and the
\* extractor registered for the name is applied to the value.
ExtInit ==
    /\ aliasing = FALSE
    /\ heap = [r \in Refs |-> <<>>]
    /\ store = [k \in AllKeys |-> Null]
    /\ calls = [p \in CallIds |-> IdleCall]
    /\ deletes = 0
    /\ lastWrite = [k \in AllKeys |-> {}]
    /\ log = <<>>
    /\ mw = NoPlugin
    /\ tr = NoRuns
    /\ \E method \in Registered, result \in RawValues :
         fn = [op |-> "extract", pc |-> "input", method |-> method, result |-> result]

ExtApply ==
    /\ fn.pc = "input"
    /\ fn' = [op |-> "extract", pc |-> "output", method |-> fn.method,
              result |-> fn.result,
              out |-> Extract(MEDIA_GROUP_METHODS(fn.method), fn.result)]
    /\ UNCHANGED <<aliasing, heap, store, calls, deletes, lastWrite, log, mw, tr>>

ExtSpec == ExtInit /\ [][ExtApply]_vars

\* toInputMedia.  An array of messages and the options are chosen, and
\* toInputMedia is applied to them.
MediaInit ==
    /\ aliasing = FALSE
    /\ heap = [r \in Refs |-> <<>>]
    /\ store = [k \in AllKeys |-> Null]
    /\ calls = [p \in CallIds |-> IdleCall]
    /\ deletes = 0
    /\ lastWrite = [k \in AllKeys |-> {}]
    /\ log = <<>>
    /\ mw = NoPlugin
    /\ tr = NoRuns
    /\ \E messages \in MediaBatches, options \in Options :
         fn = [op |-> "toInputMedia", pc |-> "input", messages |-> messages,
               options |-> options]

MediaApply ==
    /\ fn.pc = "input"
    /\ fn' = [op |-> "toInputMedia", pc |-> "output", messages |-> fn.messages,
              options |-> fn.options, out |-> toInputMedia(fn.messages, fn.options)]
    /\ UNCHANGED <<aliasing, heap, store, calls, deletes, lastWrite, log, mw, tr>>

MediaSpec == MediaInit /\ [][MediaApply]_vars

----------------------------------------------------------------------------
(* Vocabulary of the properties *)

\* The composite identity of a fragment.
Identity(m) == <<m.message_id, m.chat.id>>

NoDuplicates(group) ==
    \A i, j \in 1 .. Len(group) : i # j => Identity(group[i]) # Identity(group[j])

\* The fragments of a sequence that carry the key, in order.
WithKey(frags, key) == SelectSeq(frags, LAMBDA m : m.media_group_id = key)

\* The group keys that occur in a batch.
KeysOf(batch) == { batch[j].media_group_id : j \in 1 .. Len(batch) } \ {NoGroup}

HasIdentity(group, m) == \E j \in 1 .. Len(group) : Identity(group[j]) = Identity(m)

\* The distinct identities of frags ordered by first occurrence, each with
\* the payload of its last occurrence.
FirstsLast(frags) ==
    LET n == Len(frags)
        firsts == { i \in 1 .. n : \A j \in 1 .. i - 1 : Identity(frags[j]) # Identity(frags[i]) }
        rank(i) == Cardinality({ j \in firsts : j <= i })
        last(i) == CHOOSE j \in 1 .. n :
                      /\ Identity(frags[j]) = Identity(frags[i])
                      /\ \A l \in j + 1 .. n : Identity(frags[l]) # Identity(frags[i])
    IN  [ r \in 1 .. Cardinality(firsts) |->
            frags[last(CHOOSE i \in firsts : rank(i) = r)] ]

Settled(c) == c.pc = "done" /\ c.result = "resolved"

----------------------------------------------------------------------------
(* Properties of the concurrent runs (Spec) *)

\* C1: in every reachable backend state, under any interleaving of
\* storeMessages and delete calls, no stored group holds two entries with
\* the same (message_id, chat.id).
NoDuplicateIdentity ==
    \A k \in AllKeys : store[k] # Null => NoDuplicates(heap[store[k]])

\* Two overlapping calls both upserted the same fragment into a group that
\* held it already, and the group holds it once, beside another entry.
SameIdentityUpsertedTwice ==
    \E k \in GroupIds, j1 \in 1 .. Len(calls[1].batch), j2 \in 1 .. Len(calls[2].batch) :
        /\ Settled(calls[1]) /\ Settled(calls[2])
        /\ calls[1].batch[j1] = calls[2].batch[j2]
        /\ calls[1].batch[j1].media_group_id = k
        /\ calls[1].groups[GroupPos(calls[1].groups, k)].snap # <<>>
        /\ calls[2].groups[GroupPos(calls[2].groups, k)].snap # <<>>
        /\ HasIdentity(calls[1].groups[GroupPos(calls[1].groups, k)].snap, calls[1].batch[j1])
        /\ store[k] # Null
        /\ Len(heap[store[k]]) = 2
        /\ HasIdentity(heap[store[k]], calls[1].batch[j1])

\* C3: no lock, no version check: the write that takes effect last decides
\* the stored group.  The group stored under a key is the array of the call
\* that wrote it last, and with a backend that hands out copies it is what
\* that call read with that call's own fragments upserted, whatever other
\* calls wrote in between.
LastWriteWins ==
    \A k \in GroupIds, p \in Later :
        lastWrite[k] = {p} =>
            LET g == calls[p].groups[GroupPos(calls[p].groups, k)]
            IN  /\ store[k] = g.ref
                /\ ~aliasing => heap[store[k]] = FirstsLast(g.snap \o WithKey(calls[p].batch, k))

\* A lost update: both calls resolved, nothing was deleted, both read the
\* key before either wrote it, and the stored group lacks a fragment that
\* call 1 upserted.
LostUpdate ==
    \E k \in GroupIds, j \in 1 .. Len(calls[1].batch) :
        /\ Settled(calls[1]) /\ Settled(calls[2])
        /\ deletes = 0
        /\ calls[1].batch[j].media_group_id = k
        /\ lastWrite[k] = {2}
        /\ calls[2].groups[GroupPos(calls[2].groups, k)].snap =
              calls[1].groups[GroupPos(calls[1].groups, k)].snap
        /\ store[k] # Null
        /\ ~HasIdentity(heap[store[k]], calls[1].batch[j])

----------------------------------------------------------------------------
(* Properties of the sequential runs (SeqSpec) *)

\* No call is in flight.
Quiescent == \A p \in CallIds : calls[p].pc \in {"idle", "done"}

\* Call p is the last call made.
Latest(p) == calls[p].pc # "idle" /\ \A q \in CallIds : q > p => calls[q].pc = "idle"

\* The batches of the resolved calls 0 .. p, concatenated.
RECURSIVE Log(_)
Log(p) ==
    IF p < 0 THEN <<>>
    ELSE Log(p - 1) \o (IF Settled(calls[p]) THEN calls[p].batch ELSE <<>>)

Count(s, x) == Cardinality({ j \in 1 .. Len(s) : s[j] = x })

\* The sequence of a group as a caller read it, empty when absent.
Prior(seen) == IF seen = Absent THEN <<>> ELSE seen[2]

\* C2: after non-overlapping calls and no delete, from an empty backend, the
\* group of key k is the distinct identities among all fragments of key k,
\* in the order of their first occurrence in the concatenated input, each
\* with the payload of its last occurrence; no group when there is none.
ArrivalOrderLastPayload ==
    Quiescent =>
        \A k \in GroupIds :
            LET frags == WithKey(Log(NumCalls), k)
            IN  Content(k) = IF frags = <<>> THEN Absent ELSE Present(FirstsLast(frags))

\* A later call upserted an edited copy of the first of two stored entries:
\* it took the first place and the other entry kept the second.
ReplacedInPlace ==
    /\ Quiescent
    /\ Settled(calls[1])
    /\ calls[0].batch = <<msg(1, 100, "g1", "old"), msg(2, 100, "g1", "old")>>
    /\ calls[1].batch = <<msg(1, 100, "g1", "new")>>
    /\ Content("g1") = Present(<<msg(1, 100, "g1", "new"), msg(2, 100, "g1", "old")>>)

\* C4: a call issues at most one read and one write per key, none for a key
\* that does not occur in its batch, and once it has resolved exactly one
\* read and one write for each key that does; a batch without any group key
\* issues no backend call.
OneReadOneWritePerKey ==
    \A p \in CallIds :
        LET c == calls[p]
        IN  /\ \A k \in AllKeys :
                 /\ Count(c.reads, k) <= 1
                 /\ Count(c.writes, k) <= 1
                 /\ k \notin KeysOf(c.batch) => Count(c.reads, k) = 0 /\ Count(c.writes, k) = 0
            /\ Settled(c) =>
                 \A k \in KeysOf(c.batch) : Count(c.reads, k) = 1 /\ Count(c.writes, k) = 1

\* A resolved call whose batch had two fragments of g1 around one of g2.
ManyFragmentsOneRead ==
    \E p \in CallIds :
        /\ Settled(calls[p])
        /\ Len(calls[p].batch) = 3
        /\ calls[p].batch[1].media_group_id = "g1"
        /\ calls[p].batch[2].media_group_id = "g2"
        /\ calls[p].batch[3].media_group_id = "g1"
        /\ calls[p].reads = <<"g1", "g2">>
        /\ calls[p].writes = <<"g1", "g2">>

\* C5: storing the batch of the call before again leaves every group as it
\* was after that call: same length, order and content.
Idempotent ==
    \A p \in Later :
        (Settled(calls[p]) /\ Latest(p) /\ calls[p].batch = calls[p - 1].batch)
            => Contents = calls[p].before

\* A batch of three fragments, two of one identity, was stored twice over a
\* group that existed before.
StoredTwice ==
    /\ Settled(calls[2])
    /\ calls[0].batch # <<>>
    /\ calls[1].batch = <<msg(1, 100, "g1", "new"), msg(2, 100, "g1", "old"),
                          msg(1, 100, "g1", "old")>>
    /\ calls[2].batch = calls[1].batch
    /\ calls[1].before["g1"] # Absent
    /\ Content("g1") # calls[1].before["g1"]

\* C6: deduplication is by the pair (message_id, chat.id): a group has one
\* entry for each distinct pair among the fragments stored under its key, so
\* two fragments with equal message_id and different chat.id are two
\* entries.
CompositeIdentity ==
    Quiescent =>
        \A k \in GroupIds :
            LET frags == WithKey(Log(NumCalls), k)
                group == Prior(Content(k))
            IN  /\ Len(group) = Cardinality({ Identity(frags[j]) : j \in 1 .. Len(frags) })
                /\ \A j1, j2 \in 1 .. Len(frags) :
                     (/\ frags[j1].message_id = frags[j2].message_id
                      /\ frags[j1].chat.id # frags[j2].chat.id)
                        => \E i1, i2 \in 1 .. Len(group) :
                             /\ i1 # i2
                             /\ Identity(group[i1]) = Identity(frags[j1])
                             /\ Identity(group[i2]) = Identity(frags[j2])

\* message_id 1 of chat 100 and message_id 1 of chat 200 are both in g1.
SameIdTwoChats ==
    /\ Quiescent
    /\ Content("g1") = Present(<<msg(1, 100, "g1", "old"), msg(1, 200, "g1", "old")>>)

\* C7: a batch is partitioned by key, order kept: after a call each key of
\* the batch holds its prior group with exactly the batch's fragments of
\* that key upserted in batch order, and every other key is unchanged.
PartitionedByKey ==
    \A p \in CallIds :
        (Settled(calls[p]) /\ Latest(p)) =>
            \A k \in GroupIds :
                Content(k) =
                    IF k \in KeysOf(calls[p].batch)
                    THEN Present(FirstsLast(Prior(calls[p].before[k])
                                            \o WithKey(calls[p].batch, k)))
                    ELSE calls[p].before[k]

\* A resolved call over an existing g1 whose batch interleaved g1 and g2.
InterleavedKeys ==
    /\ Settled(calls[1])
    /\ Latest(1)
    /\ calls[1].before["g1"] # Absent
    /\ calls[1].batch = <<msg(2, 100, "g1", "old"), msg(1, 100, "g2", "old"),
                          msg(1, 100, "g1", "new")>>

\* C8: a fragment without media_group_id is never persisted: it creates no
\* key, is in no stored group, and a batch of such fragments only issues no
\* backend call and leaves every key as it was (absent, from an empty
\* backend).
GrouplessNeverPersisted ==
    /\ store[NoGroup] = Null
    /\ \A k \in GroupIds :
         /\ store[k] # Null => k \in KeysOf(Log(NumCalls)) \cup UNION { KeysOf(calls[p].batch) : p \in CallIds }
         /\ \A j \in 1 .. Len(Prior(Content(k))) : Prior(Content(k))[j].media_group_id = k
    /\ \A p \in CallIds :
         (Latest(p) /\ KeysOf(calls[p].batch) = {}) =>
             /\ calls[p].reads = <<>> /\ calls[p].writes = <<>>
             /\ Settled(calls[p])
             /\ Contents = calls[p].before

\* A groupless fragment mixed with one of g1 was stored into the empty
\* backend, then a groupless fragment alone.
GrouplessSkipped ==
    /\ Settled(calls[1])
    /\ Latest(1)
    /\ calls[0].batch = <<msg(1, 100, NoGroup, "old"), msg(1, 100, "g1", "old")>>
    /\ calls[1].batch = <<msg(1, 100, NoGroup, "old")>>
    /\ Content("g1") = Present(<<msg(1, 100, "g1", "old")>>)
    /\ Content("g2") = Absent

----------------------------------------------------------------------------
(* Properties of the runs with a failing backend (FailSpec) *)

\* Call p is over and one of its writes failed.
WriteFailed(p) == calls[p].pc = "done" /\ calls[p].failed # {}

\* The keys call p wrote with success.
Written(p) == SeqToSet(calls[p].writes) \ calls[p].failed

\* C9, as claimed: a failed write, after the reads succeeded, leaves the
\* backend in the state it had before the call, for every batch.
WriteFailureLeavesPriorState ==
    \A p \in CallIds : WriteFailed(p) => Contents = calls[p].before

\* C9, amended: after a failed write every key of the batch whose write did
\* not succeed holds the group it held before the call, when the backend
\* hands out copies or the key was absent, and so does every key outside
\* the batch; a key of the batch whose write succeeded holds its updated
\* group.
WriteFailureIsPerKey ==
    \A p \in CallIds :
        WriteFailed(p) =>
            \A k \in GroupIds :
                /\ (/\ k \notin Written(p)
                    /\ \/ ~aliasing
                       \/ calls[p].before[k] = Absent
                       \/ k \notin KeysOf(calls[p].batch))
                     => Content(k) = calls[p].before[k]
                /\ k \in Written(p) =>
                     Content(k) = Present(FirstsLast(Prior(calls[p].before[k])
                                                     \o WithKey(calls[p].batch, k)))

\* With a backend that hands out copies, the write of an existing g1 failed
\* where it would have added an entry, and the write of g2 went through.
PartialUpdate ==
    \E p \in CallIds : \E j \in 1 .. Len(calls[p].batch) :
        /\ ~aliasing
        /\ WriteFailed(p)
        /\ calls[p].failed = {"g1"}
        /\ calls[p].before["g1"] # Absent
        /\ calls[p].batch[j].media_group_id = "g1"
        /\ ~HasIdentity(Prior(calls[p].before["g1"]), calls[p].batch[j])
        /\ Content("g1") = calls[p].before["g1"]
        /\ Content("g2") # calls[p].before["g2"]

\* C10: a rejection of the backend is neither caught nor retried: the call
\* rejects exactly when an operation of the backend failed, with the error
\* of the first failure, and no key is read twice or written twice.
ErrorPropagates ==
    \A p \in CallIds :
        LET c == calls[p]
        IN  /\ c.result = "rejected" <=> c.raised # <<>>
            /\ c.result = "rejected" => c.error = c.raised[1]
            /\ c.result = "resolved" => c.raised = <<>> /\ c.pc = "done"
            /\ \A k \in AllKeys : Count(c.reads, k) <= 1 /\ Count(c.writes, k) <= 1
            /\ (c.raised # <<>> /\ c.failed = {}) => c.writes = <<>> /\ c.pc = "done"

\* Two writes of one call failed with different errors; the call rejected
\* with the first.
FirstErrorOfTwo ==
    \E p \in CallIds :
        /\ calls[p].pc = "done"
        /\ calls[p].result = "rejected"
        /\ Len(calls[p].raised) = 2
        /\ calls[p].raised[1] # calls[p].raised[2]
        /\ calls[p].error = calls[p].raised[1]
        /\ p > 0

----------------------------------------------------------------------------
(* Properties of the runs of the three operations (ApiSpec) *)

\* The step is a call of getMediaGroup, of deleteMediaGroup.
IsGet == Len(log') = Len(log) + 1 /\ log'[Len(log')].op = "get"
IsDelete == Len(log') = Len(log) + 1 /\ log'[Len(log')].op = "delete"

\* C11: a group is destroyed only by a delete: a key that holds a group
\* holds one after every step that is not a delete of that key, whatever
\* storeMessages calls are in flight; and a get that follows a get of the
\* same key that returned a group, with no delete of the key in between,
\* returns a group.
KeptUntilDeleted ==
    /\ [](\A i, j \in 1 .. Len(log) :
            (/\ i < j
             /\ log[i].op = "get" /\ log[j].op = "get"
             /\ log[i].key = log[j].key
             /\ log[i].val # Absent
             /\ \A l \in i + 1 .. j - 1 : ~(log[l].op = "delete" /\ log[l].key = log[i].key))
                => log[j].val # Absent)
    /\ [][\A k \in AllKeys :
            (store[k] # Null /\ store'[k] = Null) => (IsDelete /\ log'[Len(log')].key = k)]_vars

\* Two gets of g1 returned different groups: a call wrote g1 in between,
\* and two storeMessages calls have run.
GroupOutlivesCalls ==
    /\ Len(log) = 2
    /\ log[1].op = "get" /\ log[2].op = "get"
    /\ log[1].key = "g1" /\ log[2].key = "g1"
    /\ log[1].val # Absent
    /\ log[2].val # log[1].val
    /\ \A p \in Later : Settled(calls[p])

\* C12: delete(k) leaves k absent and every other key as it was, and on an
\* absent key it changes nothing; no storeMessages call is affected.
DeleteRemovesItsKey ==
    [][\A k \in AllKeys :
         (IsDelete /\ log'[Len(log')].key = k) =>
             /\ Content(k)' = Absent
             /\ \A k2 \in AllKeys \ {k} : Content(k2)' = Content(k2)
             /\ Content(k) = Absent => Contents' = Contents
             /\ calls' = calls]_vars

\* g1 was read as a group and then deleted, while g2 holds a group.
DeletedOne ==
    /\ Len(log) = 2
    /\ log[1] = [op |-> "get", key |-> "g1",
                 val |-> Present(<<msg(1, 100, "g1", "old"), msg(2, 100, "g1", "old")>>)]
    /\ log[2].op = "delete" /\ log[2].key = "g1"
    /\ Content("g1") = Absent
    /\ Content("g2") # Absent

\* C13: getMediaGroup returns what the backend holds under the key: the
\* array that was written last, absent (not an empty sequence) when the key
\* was never written or was deleted since; and it changes nothing.
GetIsPassthrough ==
    [][IsGet =>
         LET e == log'[Len(log')]
         IN  /\ e.val = Absent <=> lastWrite[e.key] = {}
             /\ e.val # Present(<<>>)
             /\ \A p \in Later :
                  lastWrite[e.key] = {p} =>
                      e.val = Present(heap[calls[p].groups[GroupPos(calls[p].groups, e.key)].ref])
             /\ UNCHANGED <<aliasing, heap, store, calls, lastWrite>>]_vars

\* A get of a written key returned its two entries, a get of a key that was
\* never written returned absent.
GotGroupAndAbsent ==
    /\ Len(log) = 2
    /\ log[1].op = "get" /\ log[1].key = "g1"
    /\ log[1].val = Present(<<msg(2, 100, "g1", "old"), msg(1, 100, "g1", "old")>>)
    /\ log[2] = [op |-> "get", key |-> "g2", val |-> Absent]
    /\ lastWrite["g2"] = {}

----------------------------------------------------------------------------
(* Properties of the middleware (MwSpec) *)

HasKey(m) == m.media_group_id \in GroupIds

\* The run has reached next().
AtNext(i) == mw.runs[i].pc \in {"next", "store", "done"}

\* The groups a getter of run i returned as sequences of length 1.
SawOne(i) ==
    /\ mw.runs[i].seen # <<>>
    /\ mw.runs[i].seen[1].val # Absent
    /\ Len(mw.runs[i].seen[1].val[2]) = 1

\* What run i stored by itself: nothing, or one batch of the message, its
\* reply_to_message and its pinned_message, those that have a
\* media_group_id, in this order, in a call that has resolved.
StoredOneBatch(i) ==
    LET u == mw.runs[i].update
        expected == SelectSeq(<<u.msg, u.reply_to_message, u.pinned_message>>, HasKey)
    IN  IF expected = <<>> THEN calls[i] = IdleCall
        ELSE calls[i].batch = expected /\ Settled(calls[i])

\* What getForMsg returned to the handler of run i holds the run's message.
SawOwnMessage(i) ==
    LET r == mw.runs[i]
    IN  (HasKey(r.update.msg) /\ r.seen # <<>> /\ r.seen[1].getter = "getForMsg")
            => HasIdentity(Prior(r.seen[1].val), r.update.msg)

\* C14: with autoStore the middleware has stored its one batch when next()
\* is invoked, in any interleaving of the runs; and when no other run
\* overlaps, the group of the message holds the message at next() and in
\* what getForMsg returns to the handler.
AutoStoreBeforeNext ==
    mw.installed =>
        \A i \in Later :
            LET r == mw.runs[i]
                u == r.update
            IN  (mw.autoStore /\ AtNext(i)) =>
                    /\ StoredOneBatch(i)
                    /\ (~mw.overlap /\ HasKey(u.msg)) =>
                         /\ HasIdentity(Prior(r.atNext[u.msg.media_group_id]), u.msg)
                         /\ SawOwnMessage(i)

\* The update with a message, a reply and a pinned message of two groups was
\* stored as one batch and getForMsg returned the message and the reply.
StoredAllThree ==
    /\ mw.installed /\ mw.autoStore
    /\ mw.runs[1].pc = "done"
    /\ calls[1].batch = <<msg(2, 100, "g1", "old"), msg(1, 100, "g1", "new"),
                          msg(1, 100, "g2", "old")>>
    /\ mw.runs[1].seen = <<[getter |-> "getForMsg", read |-> TRUE,
                            val |-> Present(<<msg(2, 100, "g1", "old"),
                                              msg(1, 100, "g1", "new")>>)]>>

\* Every run is over, with autoStore, each for a message of group k that is
\* the update's only fragment of k, the messages differ, the group did not
\* exist before, and every handler called getForMsg and nothing else.
GroupArrives(k) ==
    /\ mw.installed /\ mw.autoStore
    /\ calls[0].pc = "idle"
    /\ \A i \in Later :
         /\ mw.runs[i].pc = "done"
         /\ mw.runs[i].update.msg.media_group_id = k
         /\ mw.runs[i].update.reply_to_message.media_group_id # k
         /\ mw.runs[i].update.pinned_message.media_group_id # k
         /\ mw.runs[i].seen # <<>>
         /\ mw.runs[i].seen[1].getter = "getForMsg"
         /\ mw.runs[i].atStart[k] = Absent \/ i > 1
    /\ \A i, j \in Later :
         i # j => Identity(mw.runs[i].update.msg) # Identity(mw.runs[j].update.msg)

\* C15, as claimed: in any interleaving of the runs for the messages of one
\* group, exactly one handler sees a group of length 1.
OnceInAnyInterleaving ==
    \A k \in GroupIds :
        GroupArrives(k) => Cardinality({ i \in Later : SawOne(i) }) = 1

\* C15, amended: when the runs for the messages of one group do not overlap,
\* the handler of the first run, and no other, sees a group of length 1.
OnceWhenNotOverlapping ==
    \A k \in GroupIds :
        (GroupArrives(k) /\ ~mw.overlap) => { i \in Later : SawOne(i) } = {1}

\* Two runs that did not overlap: the first handler saw one entry, the
\* second saw two.
FirstSawOne ==
    /\ GroupArrives("g1")
    /\ ~mw.overlap
    /\ SawOne(1)
    /\ Len(mw.runs[2].seen[1].val[2]) = 2

\* C16: without autoStore the middleware calls the backend for no update:
\* no storeMessages call is made for the run and the backend at next() is
\* the backend at the start; ctx.mediaGroups is set all the same.
NoAutoStoreNoBackendCall ==
    (mw.installed /\ ~mw.autoStore) =>
        \A i \in Later :
            LET r == mw.runs[i]
            IN  r.pc # "idle" =>
                    /\ r.hydrated
                    /\ r.pc # "storing"
                    /\ calls[i] = IdleCall
                    /\ r.atNext = r.atStart

\* Without autoStore, the handler of the first run stored a message and the
\* getForMsg of a later run returned its group.
ManualModeReads ==
    /\ mw.installed /\ ~mw.autoStore
    /\ mw.runs[1].stored = <<msg(1, 100, "g1", "new")>>
    /\ mw.runs[2].pc = "done"
    /\ mw.runs[2].update.msg = msg(2, 100, "g1", "old")
    /\ mw.runs[2].seen = <<[getter |-> "getForMsg", read |-> TRUE,
                            val |-> Present(<<msg(1, 100, "g1", "new")>>)]>>

\* C17: ctx.mediaGroups.store(m) is storeMessages of the batch [m], with
\* and without autoStore and for any m: no other run overlapping, when it
\* has resolved the group of m's key is its prior group with m upserted and
\* holds m, every other key is as before, and a message without
\* media_group_id changes nothing.
StoreIsUpsertOfOne ==
    mw.installed =>
        \A i \in Later :
            (mw.runs[i].pc = "store" /\ calls[0].pc = "done" /\ ~mw.overlap) =>
                LET m == mw.runs[i].stored[1]
                IN  /\ Settled(calls[0])
                    /\ \A k \in GroupIds :
                         Content(k) =
                            IF k = m.media_group_id
                            THEN Present(FirstsLast(Prior(calls[0].before[k]) \o <<m>>))
                            ELSE calls[0].before[k]
                    /\ HasKey(m) =>
                         \E j \in 1 .. Len(Prior(Content(m.media_group_id))) :
                            Prior(Content(m.media_group_id))[j] = m

\* With autoStore, a handler stored an edited copy of another message than
\* its update's into the group its update had created.
StoredByHandler ==
    \E i \in Later :
        /\ mw.installed /\ mw.autoStore /\ ~mw.overlap
        /\ mw.runs[i].pc = "store" /\ calls[0].pc = "done"
        /\ mw.runs[i].update.msg = msg(2, 100, "g1", "old")
        /\ mw.runs[i].stored = <<msg(1, 100, "g1", "new")>>
        /\ Content("g1") = Present(<<msg(2, 100, "g1", "old"), msg(1, 100, "g1", "new")>>)

\* C18: getForMsg, getForReply and getForPinned return the stored group of
\* the message, of its reply_to_message and of its pinned_message; when
\* that message is missing or has no media_group_id they return undefined
\* and the backend is not read.  They change nothing.
GettersReadTheirMessage ==
    [][\A i \in Later :
         (mw.installed /\ mw.runs[i].seen = <<>> /\ mw'.runs[i].seen # <<>>) =>
             LET u == mw.runs[i].update
                 o == mw'.runs[i].seen[1]
                 n == CASE o.getter = "getForMsg" -> u.msg
                        [] o.getter = "getForReply" -> u.reply_to_message
                        [] o.getter = "getForPinned" -> u.pinned_message
             IN  /\ IF HasKey(n)
                    THEN o.read /\ o.val = Content(n.media_group_id)
                    ELSE ~o.read /\ o.val = Absent
                 /\ UNCHANGED <<aliasing, heap, store, calls, lastWrite>>]_vars

\* For a message without media_group_id whose reply_to_message has one,
\* getForReply returned the group of the reply.
GotGroupOfReply ==
    \E i \in Later :
        /\ mw.installed
        /\ mw.runs[i].update.msg = msg(1, 100, NoGroup, "old")
        /\ mw.runs[i].seen = <<[getter |-> "getForReply", read |-> TRUE,
                                val |-> Present(<<msg(1, 100, "g1", "old")>>)]>>

----------------------------------------------------------------------------
(* Properties of the transformer (TrSpec) *)

\* C19, as claimed: for every call name that is not registered the
\* transformer classifies nothing, throws nothing and makes no backend call.
UnregisteredNeverClassified ==
    tr # NoRuns =>
        \A i \in Later :
            (tr[i].pc # "idle" /\ tr[i].method \notin Registered) =>
                /\ ~tr[i].extracted
                /\ tr[i].error = "none"
                /\ calls[i] = IdleCall
                /\ tr[i].returned = <<tr[i].res>>

\* No run of the transformer began while another was storing.
TrApart == \A i \in Later : ~tr[i].overlap

\* C31: for a response with ok = true to a registered method the transformer
\* throws nothing, has handed everything the extractor gave to one
\* storeMessages call, returns the response of prev itself and returns it
\* only once that call has resolved; and, the runs not overlapping, every
\* message of the result with a media_group_id is then in the group that
\* getMediaGroup returns for it.
StoredWhenReturned ==
    tr # NoRuns =>
        \A i \in Later :
            (tr[i].pc # "idle" /\ tr[i].res.ok /\ tr[i].method \in Registered) =>
                /\ tr[i].error = "none"
                /\ tr[i].extracted
                /\ calls[i].batch =
                     AsBatch(Extract(tr[i].method, tr[i].res.result).elems)
                /\ tr[i].pc = "done" <=> tr[i].returned = <<tr[i].res>>
                /\ tr[i].pc = "done" =>
                     /\ Settled(calls[i])
                     /\ TrApart =>
                          \A j \in 1 .. Len(calls[i].batch) :
                             LET m == calls[i].batch[j]
                             IN  HasKey(m) =>
                                   \E l \in 1 .. Len(Prior(getMediaGroup(m.media_group_id))) :
                                      Prior(getMediaGroup(m.media_group_id))[l] = m

\* sendMediaGroup returned two messages of two groups and a message without
\* group: when the transformer returned, both groups were stored.
AlbumStoredOnReturn ==
    /\ tr # NoRuns
    /\ tr[1].method = "sendMediaGroup" /\ tr[1].pc = "done"
    /\ tr[1].res.result = ArrayOf(<<msg(1, 100, "g1", "old"), msg(2, 100, "g2", "old")>>)
    /\ tr[1].returned = <<tr[1].res>>
    /\ Content("g1") = Present(<<msg(1, 100, "g1", "old")>>)
    /\ Content("g2") = Present(<<msg(2, 100, "g2", "old")>>)

\* C20: when the response of prev has ok = false, the transformer calls no
\* extractor, makes no storeMessages call, so no backend read or write,
\* and returns that response, whatever the call name.
FailedCallNotStored ==
    tr # NoRuns =>
        \A i \in Later :
            (tr[i].pc # "idle" /\ ~tr[i].res.ok) =>
                /\ ~tr[i].extracted
                /\ tr[i].error = "none"
                /\ calls[i] = IdleCall
                /\ tr[i].pc = "done"
                /\ tr[i].returned = <<tr[i].res>>

\* A forwardMessage call stored its message, and a forwardMessage call that
\* failed after it was returned with the group as it was.
FailedAfterStored ==
    /\ tr # NoRuns
    /\ tr[1].method = "forwardMessage" /\ tr[1].res.ok /\ tr[1].pc = "done"
    /\ tr[2].method = "forwardMessage" /\ ~tr[2].res.ok /\ tr[2].pc = "done"
    /\ Content("g1") = Present(<<msg(1, 100, "g1", "old")>>)

----------------------------------------------------------------------------
(* Properties of the extractors (ExtSpec) *)

Extracted(method) == fn.pc = "output" /\ fn.method = method

\* C21: for sendMediaGroup a result that is an array is returned as it is,
\* the same elements in the same order, and any other result (no value,
\* null, a boolean, a string, an object) gives an empty array.
ArrayRule ==
    Extracted("sendMediaGroup") =>
        /\ fn.out.iterable
        /\ IF fn.result.kind = "array"
           THEN /\ Len(fn.out.elems) = Len(fn.result.items)
                /\ \A j \in 1 .. Len(fn.out.elems) :
                     fn.out.elems[j] = MessageOf(fn.result.items[j])
           ELSE fn.out.elems = <<>>

\* An array of two messages, one of them without media_group_id, came back
\* as it was.
ArrayVerbatim ==
    /\ Extracted("sendMediaGroup")
    /\ fn.result = ArrayOf(<<msg(3, 100, NoGroup, "old"), msg(1, 100, "g1", "old")>>)
    /\ fn.out.elems = <<MessageOf(msg(3, 100, NoGroup, "old")),
                        MessageOf(msg(1, 100, "g1", "old"))>>

\* C22: for editMessageMedia, editMessageCaption and editMessageReplyMarkup
\* a result that is an object and not null gives a one-element array
\* holding it, and a boolean, null or any other value that is not an object
\* gives an empty array.
OptionalObjectRule ==
    \A method \in {"editMessageMedia", "editMessageCaption", "editMessageReplyMarkup"} :
        Extracted(method) =>
            /\ fn.out.iterable
            /\ fn.out.elems =
                 IF fn.result.kind \in {"message", "array"} THEN <<fn.result>> ELSE <<>>

\* The result `true` of an edit of an inline message gave an empty array.
InlineEditGaveNothing ==
    /\ Extracted("editMessageCaption")
    /\ fn.result = TrueResult
    /\ fn.out = Iterable(<<>>)

\* C23: for forwardMessage the result is wrapped in a one-element array
\* whatever it is; the extractor gives a value for every input and the
\* backend is not touched.
SingletonRule ==
    Extracted("forwardMessage") =>
        /\ fn.out = Iterable(<<fn.result>>)
        /\ store = [k \in AllKeys |-> Null]
        /\ calls = [p \in CallIds |-> IdleCall]

\* null was wrapped like a message.
WrappedNull ==
    /\ Extracted("forwardMessage")
    /\ fn.result = NullResult
    /\ fn.out.elems = <<NullResult>>

----------------------------------------------------------------------------
(* Properties of toInputMedia (MediaSpec) *)

\* toInputMedia has returned an array.
Returned == fn.pc = "output" /\ ~fn.out.threw

\* What a message is, by the first media field it has.
MediaKind(m) ==
    IF m.photo # <<>> THEN "photo"
    ELSE IF m.video # <<>> THEN "video"
    ELSE IF m.animation # <<>> THEN "animation"
    ELSE IF m.document # <<>> THEN "document"
    ELSE IF m.audio # <<>> THEN "audio"
    ELSE "none"

Recognized(m) == MediaKind(m) # "none"

\* The index in the output of the message at index j of the input.
OutIndex(messages, j) == Cardinality({ k \in 1 .. j : Recognized(messages[k]) })

Carries(d, flag) == flag \in DOMAIN d /\ d[flag] # Unset

\* C24, as claimed: no item of the output after the first carries
\* show_caption_above_media.
PlacementOnFirstOnly ==
    Returned =>
        \A j \in 2 .. Len(fn.out.items) :
            ~Carries(fn.out.items[j], "show_caption_above_media")

\* C25: with options.caption set, the item for the message at index 0 has
\* caption, parse_mode and caption_entities of the options and nothing of
\* the message's; without it, and for every other message, caption and
\* caption_entities are the message's and parse_mode is unset.
CaptionFields ==
    Returned =>
        \A j \in 1 .. Len(fn.messages) :
            Recognized(fn.messages[j]) =>
                LET m == fn.messages[j]
                    d == fn.out.items[OutIndex(fn.messages, j)]
                IN  IF j = 1 /\ fn.options.caption # Unset
                    THEN /\ d.caption = fn.options.caption
                         /\ d.parse_mode = fn.options.parse_mode
                         /\ d.caption_entities = fn.options.caption_entities
                    ELSE /\ d.caption = m.caption
                         /\ d.caption_entities = m.caption_entities
                         /\ d.parse_mode = Unset

\* The caption of the options, without entities, replaced caption and
\* entities of the first of two messages and the second kept its own.
CaptionOverridden ==
    /\ Returned
    /\ Len(fn.messages) = 2
    /\ fn.messages[1].caption = "own" /\ fn.messages[1].caption_entities = "ownEntities"
    /\ fn.messages[2].caption = "own"
    /\ fn.options.caption = "override" /\ fn.options.parse_mode = "HTML"
    /\ fn.options.caption_entities = Unset
    /\ Len(fn.out.items) = 2
    /\ fn.out.items[1].caption = "override" /\ fn.out.items[1].parse_mode = "HTML"
    /\ fn.out.items[1].caption_entities = Unset
    /\ fn.out.items[2].caption = "own" /\ fn.out.items[2].parse_mode = Unset

\* C26, as claimed: toInputMedia returns an array for every array of
\* messages and never throws.
NeverThrows == fn.pc = "output" => ~fn.out.threw

\* C27: a photo gives type photo with the file_id of its last size, a video
\* type video, an animation type video with the file_id of the animation,
\* a document type document and an audio type audio, each with its own
\* file_id.
PerTypeProjection ==
    Returned =>
        \A j \in 1 .. Len(fn.messages) :
            Recognized(fn.messages[j]) =>
                LET m == fn.messages[j]
                    d == fn.out.items[OutIndex(fn.messages, j)]
                    kind == MediaKind(m)
                IN  /\ kind = "photo" =>
                         d.type = "photo" /\ d.media = m.photo[1][Len(m.photo[1])]
                    /\ kind = "video" => d.type = "video" /\ d.media = m.video[1]
                    /\ kind = "animation" => d.type = "video" /\ d.media = m.animation[1]
                    /\ kind = "document" => d.type = "document" /\ d.media = m.document[1]
                    /\ kind = "audio" => d.type = "audio" /\ d.media = m.audio[1]

\* A photo of two sizes gave its large size and an animation gave a video.
LargePhotoAndAnimation ==
    /\ Returned
    /\ Len(fn.messages) = 2
    /\ fn.messages[1].photo = << <<"small", "large">> >>
    /\ fn.messages[2].animation = <<"anim1">>
    /\ fn.out.items[1].type = "photo" /\ fn.out.items[1].media = "large"
    /\ fn.out.items[2].type = "video" /\ fn.out.items[2].media = "anim1"

\* C28: every photo, video and animation item has has_spoiler of the
\* options, and a document or audio item has neither has_spoiler nor
\* show_caption_above_media.
SpoilerOnVisualOnly ==
    Returned =>
        \A j \in 1 .. Len(fn.messages) :
            Recognized(fn.messages[j]) =>
                LET d == fn.out.items[OutIndex(fn.messages, j)]
                IN  IF MediaKind(fn.messages[j]) \in {"photo", "video", "animation"}
                    THEN "has_spoiler" \in DOMAIN d
                         /\ d.has_spoiler = fn.options.has_spoiler
                    ELSE DOMAIN d = {"type", "media", "caption", "parse_mode",
                                     "caption_entities"}

\* With has_spoiler and show_caption_above_media, a photo and an animation
\* both have the spoiler and the document between them has neither flag.
SpoilerAroundDocument ==
    /\ Returned
    /\ fn.options.has_spoiler = True /\ fn.options.show_caption_above_media = True
    /\ Len(fn.messages) = 3
    /\ MediaKind(fn.messages[1]) = "photo"
    /\ MediaKind(fn.messages[2]) = "document"
    /\ MediaKind(fn.messages[3]) = "animation"
    /\ fn.out.items[1].has_spoiler = True
    /\ ~Carries(fn.out.items[2], "has_spoiler")
    /\ ~Carries(fn.out.items[2], "show_caption_above_media")
    /\ fn.out.items[3].has_spoiler = True

\* C29: the output has one item for each message with a media field, in
\* the order of the messages, and nothing for a message without; an empty
\* input gives an empty output.
OrderPreservingImage ==
    Returned =>
        /\ Len(fn.out.items) = OutIndex(fn.messages, Len(fn.messages))
        /\ \A j \in 1 .. Len(fn.messages) :
             Recognized(fn.messages[j]) =>
                LET m == fn.messages[j]
                    d == fn.out.items[OutIndex(fn.messages, j)]
                IN  d.media = CASE MediaKind(m) = "photo" -> m.photo[1][Len(m.photo[1])]
                                [] MediaKind(m) = "video" -> m.video[1]
                                [] MediaKind(m) = "animation" -> m.animation[1]
                                [] MediaKind(m) = "document" -> m.document[1]
                                [] MediaKind(m) = "audio" -> m.audio[1]
        /\ fn.messages = <<>> => fn.out.items = <<>>

\* A text message between a photo and a video was left out.
TextMessageOmitted ==
    /\ Returned
    /\ Len(fn.messages) = 3
    /\ fn.messages[2] = TextMessage
    /\ Len(fn.out.items) = 2
    /\ fn.out.items[1].media = "large"
    /\ fn.out.items[2].media = "vid1"

----------------------------------------------------------------------------
(* The batch and the single store (SeqSpec) *)

----------------------------------------------------------------------------
(* More properties of the concurrent runs (Spec) *)

\* C32: in every backend state reached from the empty backend by
\* storeMessages and delete calls in any interleaving, every message stored
\* under a key has that key as its media_group_id, and no stored group is
\* empty.
KeyConsistency ==
    \A k \in AllKeys :
        store[k] # Null =>
            /\ heap[store[k]] # <<>>
            /\ \A j \in 1 .. Len(heap[store[k]]) : heap[store[k]][j].media_group_id = k

\* After a delete, two overlapping calls with messages of both groups have
\* resolved and both groups are stored.
BothGroupsAfterRace ==
    /\ deletes = 1
    /\ Settled(calls[1]) /\ Settled(calls[2])
    /\ KeysOf(calls[1].batch) = GroupIds
    /\ calls[2].reads # <<>>
    /\ Content("g1") = Present(<<msg(1, 100, "g1", "old"), msg(2, 100, "g1", "old")>>)
    /\ Content("g2") = Present(<<msg(1, 100, "g2", "old")>>)

----------------------------------------------------------------------------
(* More properties of the runs with a failing backend (FailSpec) *)

\* The distinct keys of a batch in the order of their first occurrence.
FirstKeys(batch) ==
    LET firsts == { j \in 1 .. Len(batch) :
                      /\ ~Falsy(batch[j].media_group_id)
                      /\ \A l \in 1 .. j - 1 :
                           batch[l].media_group_id # batch[j].media_group_id }
        at(r) == CHOOSE j \in firsts : Cardinality({ l \in firsts : l <= j }) = r
    IN  [ r \in 1 .. Cardinality(firsts) |-> batch[at(r)].media_group_id ]

\* Call p is over and one of its reads rejected.
ReadFailed(p) ==
    /\ calls[p].pc = "done"
    /\ calls[p].raised # <<>>
    /\ Len(calls[p].reads) > Len(calls[p].groups)

\* The reads of a call are one per distinct key, one at a time, in the
\* order of the first occurrence of the keys, and no write is issued before
\* the last of them has answered.
ReadsThenWrites(p) ==
    LET c == calls[p]
        keys == FirstKeys(c.batch)
    IN  /\ Len(c.reads) <= Len(keys)
        /\ c.reads = SubSeq(keys, 1, Len(c.reads))
        /\ Len(c.reads) - Len(c.groups) \in {0, 1}
        /\ c.writes # <<>> => c.reads = keys /\ Len(c.groups) = Len(keys)

\* C33, as claimed: the reads of a call all complete before any write, so
\* when a read rejects no write is performed and the backend is unchanged.
ReadFailureLeavesBackend ==
    \A p \in CallIds :
        /\ calls[p].pc \notin {"idle", "gone"} => ReadsThenWrites(p)
        /\ (ReadFailed(p) /\ Latest(p)) =>
              calls[p].writes = <<>> /\ Contents = calls[p].before

\* C33, amended: the reads of a call all complete before any write, so when
\* a read rejects no write is performed; every key outside the batch is
\* unchanged, and so is every key of the batch when the backend hands out
\* copies or the key was absent.
ReadFailureWritesNothing ==
    \A p \in CallIds :
        /\ calls[p].pc \notin {"idle", "gone"} => ReadsThenWrites(p)
        /\ (ReadFailed(p) /\ Latest(p)) =>
              /\ calls[p].writes = <<>>
              /\ calls[p].result = "rejected"
              /\ store = [k \in AllKeys |->
                            IF calls[p].before[k] = Absent THEN Null ELSE store[k]]
              /\ \A k \in GroupIds :
                   (\/ ~aliasing
                    \/ calls[p].before[k] = Absent
                    \/ k \notin KeysOf(calls[p].batch))
                     => Content(k) = calls[p].before[k]

\* With a backend that hands out copies, a call read the stored g1, upserted
\* a new message into it, and the read of g2 rejected: g1 is as it was.
SecondReadRejected ==
    \E p \in CallIds :
        /\ ~aliasing
        /\ ReadFailed(p) /\ Latest(p)
        /\ calls[p].reads = <<"g1", "g2">>
        /\ calls[p].before["g1"] # Absent
        /\ ~HasIdentity(Prior(calls[p].before["g1"]), calls[p].batch[1])
        /\ Content("g1") = calls[p].before["g1"]

----------------------------------------------------------------------------
(* More properties of the concurrent runs (Spec) *)

\* The group call p holds for key k.
GroupOf(p, k) == calls[p].groups[GroupPos(calls[p].groups, k)]

\* Call p shares no key with another of the overlapping calls, and nothing
\* was deleted.
Disjoint(p) ==
    /\ deletes = 0
    /\ \A q \in Later \ {p} : KeysOf(calls[q].batch) \cap KeysOf(calls[p].batch) = {}

\* The backend as the overlapping calls found it: for a key of a call, what
\* that call read, and for the other keys, what is stored.
Found ==
    [k \in AllKeys |->
        LET readers == { p \in Later : k \in KeysOf(calls[p].batch)
                                       /\ GroupPos(calls[p].groups, k) >= 1 }
            snap == GroupOf(CHOOSE p \in readers : TRUE, k).snap
        IN  IF readers = {} THEN Content(k)
            ELSE IF snap = <<>> THEN Absent ELSE Present(snap)]

\* A resolved call that shares no key with the others has stored, under
\* each of its keys, what it found with its own batch upserted, whatever the
\* other calls did meanwhile; and when all calls are of this kind, the
\* backend is as after running them one after the other, in either order.
ComposedState ==
    /\ \A p \in Later :
         (Settled(calls[p]) /\ Disjoint(p)) =>
             /\ SeqToSet(calls[p].writes) = KeysOf(calls[p].batch)
             /\ \A k \in KeysOf(calls[p].batch) :
                  Content(k) = storeEach(Found, calls[p].batch)[k]
    /\ (\A p \in Later : Settled(calls[p]) /\ Disjoint(p)) =>
             /\ Contents = storeEach(storeEach(Found, calls[1].batch), calls[2].batch)
             /\ Contents = storeEach(storeEach(Found, calls[2].batch), calls[1].batch)

\* A step changes what is stored under a key only when it is a step of a
\* call whose batch has the key, or a delete; and a read yields what is
\* stored under its key at that moment.
OwnKeysOnly ==
    /\ \A k \in GroupIds :
         Content(k)' # Content(k) =>
             \/ deletes' # deletes
             \/ \E p \in CallIds : /\ calls'[p] # calls[p]
                                   /\ k \in KeysOf(calls'[p].batch)
    /\ \A p \in CallIds :
         (calls[p].pc = "read" /\ calls'[p].pc = "resume") =>
             LET g == calls'[p].groups[Len(calls'[p].groups)]
             IN  g.snap = Prior(Content(g.key))

\* C34: storeMessages calls whose batches have no key in common do not
\* interfere: under every interleaving of their reads and writes the
\* backend ends as after running the calls one after the other, because a
\* call changes only the keys of its own batch.
DisjointCallsDoNotInterfere == [][OwnKeysOnly]_vars /\ []ComposedState

\* Call 2, on g2 alone, was made and resolved while call 1, on g1 alone, had
\* read and not yet written; g2 holds what call 2 stored.
ResolvedBetweenReadAndWrite ==
    /\ deletes = 0
    /\ KeysOf(calls[1].batch) = {"g1"} /\ KeysOf(calls[2].batch) = {"g2"}
    /\ calls[1].pc = "write" /\ "g1" \in calls[1].pend
    /\ Settled(calls[2])
    /\ Content("g2") # Found["g2"]
    /\ Content("g1") # Absent

\* The write of key k by call p takes effect in this step.
Writes(p, k) ==
    /\ calls[p].pc = "write"
    /\ k \in calls[p].pend
    /\ k \notin calls'[p].pend

\* When the write of k by a call takes effect on a backend that has lost k
\* since the call read it, the group is stored again: it holds every
\* fragment the call read and every fragment of its batch, and with a
\* backend that hands out copies it is exactly what the call read with its
\* batch upserted.
WriteRecreates ==
    \A p \in Later, k \in GroupIds :
        (Writes(p, k) /\ store[k] = Null /\ GroupOf(p, k).snap # <<>>) =>
            LET mine == GroupOf(p, k).snap \o WithKey(calls[p].batch, k)
            IN  /\ Content(k)' # Absent
                /\ \A j \in 1 .. Len(mine) : HasIdentity(Prior(Content(k)'), mine[j])
                /\ ~aliasing => Content(k)' = Present(FirstsLast(mine))

\* C35: a delete(k) that takes effect between the read and the write of a
\* storeMessages call that touches k does not last: the write of that call
\* stores the group again, with the fragments the call read before the
\* delete and those of its batch, so the key is present although the delete
\* was the latest operation to start.
DeleteDoesNotLast == [][WriteRecreates]_vars

\* Call 1, the only call after the seeding one, touches g1 alone and read a
\* stored g1; one delete was made, g2 is still stored, so the delete was of
\* g1; and g1 is stored, so the delete came before the write of call 1.
DeletedGroupIsBack ==
    /\ deletes = 1
    /\ calls[2].pc = "idle"
    /\ Settled(calls[1])
    /\ KeysOf(calls[1].batch) = {"g1"}
    /\ GroupOf(1, "g1").snap # <<>>
    /\ Content("g2") # Absent
    /\ Content("g1") # Absent
    /\ Len(Prior(Content("g1"))) = 2

----------------------------------------------------------------------------
(* The array returned by the read is modified in place (FailSpec) *)

\* The fragments call p has upserted so far: the loop handles the batch in
\* order and is over when the writes are invoked.
Upserted(p) ==
    LET c == calls[p]
    IN  IF c.writes # <<>> \/ c.result = "resolved" THEN c.batch
        ELSE SubSeq(c.batch, 1, c.i - 1)

\* C38: storeMessages modifies in place the array the read returned: with
\* a backend whose read returns its stored array itself, what is stored
\* under a key that was present shows the replacements and appends of the
\* call as soon as they are made, before write(key) is invoked, and the
\* rejection of a read or of a write does not undo them.
UpsertsShowBeforeWrite ==
    \A p \in CallIds, k \in GroupIds :
        (/\ aliasing
         /\ Latest(p)
         /\ calls[p].pc # "gone"
         /\ calls[p].before[k] # Absent)
          => Content(k) = Present(FirstsLast(Prior(calls[p].before[k])
                                             \o WithKey(Upserted(p), k)))

\* With a backend that returns its stored array, the write of g1 rejected
\* and g1 holds the new fragment of the batch beside what it held.
RejectedWriteShows ==
    \E p \in CallIds : \E j \in 1 .. Len(calls[p].batch) :
        /\ aliasing
        /\ Latest(p)
        /\ WriteFailed(p)
        /\ calls[p].failed = {"g1"}
        /\ lastWrite["g1"] # {p}
        /\ calls[p].before["g1"] # Absent
        /\ calls[p].batch[j].media_group_id = "g1"
        /\ ~HasIdentity(Prior(calls[p].before["g1"]), calls[p].batch[j])
        /\ HasIdentity(Prior(Content("g1")), calls[p].batch[j])

----------------------------------------------------------------------------
(* Properties of the middleware over a rejecting backend (MwFailSpec) *)

\* A run whose storeMessages call rejected never reaches next(): it waits
\* for the rejection or has rejected with the error of the call, with
\* ctx.mediaGroups set and no handler having run.
RejectedRun(i) ==
    LET run == mw.runs[i]
    IN  /\ run.pc \in {"storing", "rejected"}
        /\ run.hydrated
        /\ run.atNext = <<>> /\ run.seen = <<>> /\ run.stored = <<>>
        /\ run.pc = "rejected" =>
              run.error = calls[i].error /\ run.error \in Errors

AutoStoreRejection ==
    mw # NoPlugin =>
        \A i \in Later :
            /\ calls[i].result = "rejected" => RejectedRun(i)
            /\ mw.runs[i].pc = "rejected" => calls[i].result = "rejected"

\* A run that rejected takes no further step.
RejectedForGood ==
    mw # NoPlugin =>
        \A i \in Later : mw.runs[i].pc = "rejected" => mw'.runs[i] = mw.runs[i]

\* C36: when the storeMessages call of the middleware rejects, on a backend
\* read or write failure, the middleware rejects with that error and next()
\* is never invoked for that update; ctx.mediaGroups is already set then.
RejectionSkipsNext == []AutoStoreRejection /\ [][RejectedForGood]_vars

\* A run rejected with the error of a failed write of its second key, after
\* the write of its first key took effect.
RejectedAfterWrite ==
    /\ mw # NoPlugin
    /\ \E i \in Later :
        /\ mw.runs[i].pc = "rejected"
        /\ mw.runs[i].error = "E2"
        /\ calls[i].failed = {"g2"}
        /\ lastWrite["g1"] = {i}
        /\ mw.runs[i].hydrated

----------------------------------------------------------------------------
(* Properties of the transformer over a rejecting backend (TrFailSpec) *)

\* A run whose storeMessages call rejected: prev answered ok, and the run
\* waits for the rejection or is over with the error of the call and
\* without having returned the response.
RejectedStore(i) ==
    /\ tr[i].res.ok
    /\ tr[i].extracted
    /\ tr[i].returned = <<>>
    /\ tr[i].pc \in {"storing", "done"}
    /\ tr[i].pc = "done" => tr[i].error = calls[i].error /\ tr[i].error \in Errors

StoreRejection ==
    tr # NoRuns =>
        \A i \in Later :
            /\ calls[i].result = "rejected" => RejectedStore(i)
            /\ tr[i].pc # "idle" => tr[i].prev = 1
            /\ tr[i].error \in Errors => calls[i].result = "rejected"

\* A run that is over takes no further step.
OverForGood ==
    tr # NoRuns => \A i \in Later : tr[i].pc = "done" => tr'[i] = tr[i]

\* C37: when prev answered ok and the storeMessages call on its result
\* rejects, on a backend failure, the transformer rejects with the error of
\* the backend and the response of prev is not returned; prev is not
\* invoked again.
RejectionHidesResponse == []StoreRejection /\ [][OverForGood]_vars

\* sendMediaGroup answered an album of two groups; the write of g1 took
\* effect, the write of g2 rejected, and the run rejected with that error.
AlbumHalfStored ==
    /\ tr # NoRuns
    /\ \E i \in Later :
        /\ tr[i].pc = "done"
        /\ tr[i].method = "sendMediaGroup"
        /\ tr[i].res.ok
        /\ tr[i].error = "E1"
        /\ tr[i].returned = <<>>
        /\ calls[i].failed = {"g2"}
        /\ lastWrite["g1"] = {i}

----------------------------------------------------------------------------
(* More properties of toInputMedia (MediaSpec) *)

\* The media fields in the order toInputMedia tests them.
Precedence == <<"photo", "video", "animation", "document", "audio">>

\* The positions in Precedence of the media fields message m has.
Payloads(m) == { r \in 1 .. Len(Precedence) : m[Precedence[r]] # <<>> }

\* The media field of m that comes first in Precedence.
Chosen(m) == Precedence[CHOOSE r \in Payloads(m) : \A q \in Payloads(m) : r <= q]

\* The file_id of a media field of m: of the last size for a photo.
FileId(m, field) ==
    IF field = "photo" THEN m.photo[1][Len(m.photo[1])] ELSE m[field][1]

\* C39: of a message with several media fields toInputMedia takes one, the
\* first in the order photo, video, animation, document, audio: a message
\* with animation and document gives one item of type video with the
\* file_id of the animation; and each message gives at most one item.
OnePayloadByPrecedence ==
    Returned =>
        /\ Len(fn.out.items) =
              Cardinality({ j \in 1 .. Len(fn.messages) : Payloads(fn.messages[j]) # {} })
        /\ Len(fn.out.items) <= Len(fn.messages)
        /\ \A j \in 1 .. Len(fn.messages) :
             Payloads(fn.messages[j]) # {} =>
                LET m == fn.messages[j]
                    d == fn.out.items[Cardinality({ k \in 1 .. j :
                                                      Payloads(fn.messages[k]) # {} })]
                IN  /\ d.type = IF Chosen(m) = "animation" THEN "video" ELSE Chosen(m)
                    /\ d.media = FileId(m, Chosen(m))

\* Three messages with two media fields or more gave three items: the
\* video of the animation, the photo, and the document.
OneItemEach ==
    /\ Returned
    /\ Len(fn.messages) = 3
    /\ Payloads(fn.messages[1]) = {3, 4}
    /\ Payloads(fn.messages[2]) = {1, 2}
    /\ Payloads(fn.messages[3]) = {4, 5}
    /\ Len(fn.out.items) = 3
    /\ fn.out.items[1].type = "video" /\ fn.out.items[1].media = "anim1"
    /\ fn.out.items[2].type = "photo" /\ fn.out.items[2].media = "ph3"
    /\ fn.out.items[3].type = "document" /\ fn.out.items[3].media = "doc5"

\* The caption of the options is on item d.
Overridden(d) == fn.options.caption # Unset /\ d.caption = fn.options.caption

\* C40: the caption of the options goes by index 0 of the input, not by
\* the first item of the output: it is in the output if and only if
\* options.caption is set and the message at index 0 has a media field, and
\* then on the first item only; when the message at index 0 is skipped, the
\* first item has the caption of its own message and no item has the
\* caption of the options.
OverrideGoesByInputIndex ==
    Returned =>
        LET items == fn.out.items
            first == CHOOSE j \in 1 .. Len(fn.messages) :
                        /\ Recognized(fn.messages[j])
                        /\ \A k \in 1 .. j - 1 : ~Recognized(fn.messages[k])
        IN  /\ (\E j \in 1 .. Len(items) : Overridden(items[j]))
                 <=> /\ fn.options.caption # Unset
                     /\ fn.messages # <<>>
                     /\ Recognized(fn.messages[1])
            /\ \A j \in 2 .. Len(items) : ~Overridden(items[j])
            /\ (items # <<>> /\ ~Recognized(fn.messages[1])) =>
                 /\ items[1].caption = fn.messages[first].caption
                 /\ items[1].caption_entities = fn.messages[first].caption_entities
                 /\ items[1].parse_mode = Unset

\* With options.caption set, a text message came first and a captioned
\* video second: the one item has the caption of the video.
OverrideLostOnText ==
    /\ Returned
    /\ fn.options.caption = "override"
    /\ Len(fn.messages) = 2
    /\ fn.messages[1] = TextMessage
    /\ fn.messages[2].video = <<"vid1">>
    /\ Len(fn.out.items) = 1
    /\ fn.out.items[1].caption = "own"

=============================================================================
